---- MODULE Spec2Model ----
(***************************************************************************)
(* Household membership and recipe-access model of mealio.                 *)
(*                                                                         *)
(* The relational store is modelled as sets of rows (one variable per      *)
(* table).  Every request runs in its own AsyncSession: statements read    *)
(* the committed rows plus the session's own flushed rows (READ COMMITTED),*)
(* a flush INSERTs rows that stay private until the session commits, and   *)
(* a unique constraint makes an INSERT fail against a committed row and    *)
(* wait for another session's uncommitted row.  Every await of a service   *)
(* method (one storage round trip) is one action.                          *)
(***************************************************************************)
EXTENDS Integers, FiniteSets, Sequences, TLC

\* ------------------------------------------------------------------ bounds
MaxCodes == 2
MaxHouseholds == 2
MaxRecipes == 2
MaxCalls == 5
MaxScenarioCalls == 3
MaxRoundTripCalls == 2
MaxNameLen == 2
MaxLookupCalls == 3
MaxLines == 2
MaxRecipeCalls == 2
MaxPlanningCalls == 4
MaxDirectoryCalls == 3
MaxOwnershipCalls == 3
MaxListingCalls == 3

\* The users table (not written by the modelled calls) and the concurrent
\* requests.
Users == 1..2
Sessions == 1..2
Codes == 1..MaxCodes

\* Python's None (a NULL column, an absent row).
None == 0
\* sqlalchemy.exc.MultipleResultsFound, raised by scalar_one_or_none().
MultipleResultsFound == 0 - 1

VARIABLES
    households,              \* committed rows of table households
    household_memberships,   \* committed rows of table household_memberships
    current_household_id,    \* users.current_household_id, per user
    recipes,                 \* committed rows of table recipes
    recipe_household_access, \* committed rows of table recipe_household_access
    session,                 \* per request: the running service call
    calls,                   \* number of service calls started so far
    ingredients,             \* committed rows of table ingredients
    ingredient_call,         \* per request: the running ingredient lookup
    recipe_ingredients,      \* committed rows of table recipe_ingredients
    recipe_call,             \* per request: the running recipe creation
    meal_plans,              \* committed rows of table meal_plans
    planned_meals,           \* committed rows of table planned_meals
    shopping_lists,          \* committed rows of table shopping_lists
    shopping_list_items,     \* committed rows of table shopping_list_items
    shopping_call,           \* per request: the running shopping-list generation
    parse_call,              \* a call of parse_ingredient_string
    stats_call               \* a call of get_parsing_stats

vars == <<households, household_memberships, current_household_id, recipes,
          recipe_household_access, session, calls, ingredients,
          ingredient_call, recipe_ingredients, recipe_call, meal_plans,
          planned_meals, shopping_lists, shopping_list_items, shopping_call,
          parse_call, stats_call>>

catalog == <<ingredients, ingredient_call>>

lines == <<recipe_ingredients, recipe_call>>

planning == <<meal_plans, planned_meals, shopping_lists, shopping_list_items,
              shopping_call>>

parsing == <<parse_call, stats_call>>

kitchen == <<lines, planning, parsing>>

db == <<households, household_memberships, current_household_id, recipes,
        recipe_household_access>>

\* ------------------------------------------------------------------ helpers

\* A primary key no row and no session refers to (uuid.uuid4()).
FreshId(used) == CHOOSE i \in 1..(Cardinality(used) + 1) : i \notin used

\* Result.scalar_one_or_none() over a set of scalar values.
scalar_one_or_none(S) ==
    IF S = {} THEN None
    ELSE IF Cardinality(S) = 1 THEN CHOOSE x \in S : TRUE
    ELSE MultipleResultsFound

\* The session of a request between two calls.
NoCall ==
    [op |-> "none", pc |-> "done", outcome |-> "none",
     user_id |-> None, invite_code |-> None, household |-> None,
     membership |-> None, access_grant |-> None, recipe_id |-> None,
     todo |-> {},
     new_households |-> {}, new_memberships |-> {}, dirty_user |-> FALSE,
     ncommit |-> 0,
     current_user |-> None, role |-> "null", members |-> {},
     result |-> {}]

Ready(p) == session[p].pc = "done"

\* A new service call may start (the model explores MaxCalls calls).
StartCall == calls < MaxCalls /\ calls' = calls + 1

InFlight(p) == session[p].pc # "done"

\* Rows a statement of session p reads: committed ones and its own flushed ones.
VisibleHouseholds(p) == households \cup session[p].new_households

VisibleMemberships(p) == household_memberships \cup session[p].new_memberships

OthersNewHouseholds(p) ==
    UNION {session[q].new_households : q \in Sessions \ {p}}

OthersNewMemberships(p) ==
    UNION {session[q].new_memberships : q \in Sessions \ {p}}

\* ------------------------------------------------------- storage constraints

\* Mutant: the invite_code column declared without unique=True.
unique_invite_code_dropped(rows, row) == TRUE

\* Household.invite_code = Column(String(50), unique=True): may `row` be
\* inserted beside `rows`?
unique_invite_code(rows, row) ==
    \A h \in rows : h.invite_code # row.invite_code

\* Mutant: the constraint declared on (user_id, household_id).
unique_user_household_pair(rows, row) ==
    \A m \in rows :
        ~(m.user_id = row.user_id /\ m.household_id = row.household_id)

\* UniqueConstraint("user_id", name="unique_user_household"): may `row` be
\* inserted beside `rows`?
unique_user_household(rows, row) ==
    \A m \in rows : m.user_id # row.user_id

\* UniqueConstraint("recipe_id", "household_id",
\*                  name="unique_recipe_household_access")
unique_recipe_household_access(rows, row) ==
    \A g \in rows :
        ~(g.recipe_id = row.recipe_id /\ g.household_id = row.household_id)

\* ------------------------------------------------------------------ queries

\* Mutant: the WHERE clause on invite_code left out.
get_household_any(rows, invite_code) ==
    scalar_one_or_none({h.id : h \in rows})

\* select(Household).where(Household.invite_code == invite_code)
get_household_by_invite_code(rows, invite_code) ==
    scalar_one_or_none({h.id : h \in {x \in rows : x.invite_code = invite_code}})

\* Mutant: the membership test left out (no row is ever found).
existing_membership_unchecked(rows, user_id) == None

\* select(HouseholdMembership).where(HouseholdMembership.user_id == user_id)
existing_membership(rows, user_id) ==
    scalar_one_or_none({m.id : m \in {x \in rows : x.user_id = user_id}})

\* select(Household).join(HouseholdMembership)
\*     .where(HouseholdMembership.user_id == user_id)
get_user_household(user_id) ==
    scalar_one_or_none(
        {h.id : h \in {x \in households :
            \E m \in household_memberships :
                m.household_id = x.id /\ m.user_id = user_id}})

\* select(RecipeHouseholdAccess).where(recipe_id == ..., household_id == ...)
existing_access(rows, recipe_id, household_id) ==
    scalar_one_or_none(
        {g.id : g \in {x \in rows :
            x.recipe_id = recipe_id /\ x.household_id = household_id}})

\* select(Recipe.user_id).where(Recipe.id == recipe_id)
recipe_owner(recipe_id) ==
    scalar_one_or_none({r.user_id : r \in {x \in recipes : x.id = recipe_id}})

\* Mutant: the access check does not filter on the user's household.
can_user_access_any_household(recipe_id, user_id) ==
    IF recipe_owner(recipe_id) = user_id THEN TRUE
    ELSE IF get_user_household(user_id) \in {None, MultipleResultsFound}
    THEN FALSE
    ELSE \E g \in recipe_household_access : g.recipe_id = recipe_id

\* RecipeService.can_user_access_recipe; a raised MultipleResultsFound
\* reaches the caller as an error, which grants nothing.
can_user_access_recipe(recipe_id, user_id) ==
    IF recipe_owner(recipe_id) = user_id THEN TRUE
    ELSE LET user_household == get_user_household(user_id)
             access_check ==
                 existing_access(recipe_household_access, recipe_id,
                                 user_household)
         IN  IF user_household = None THEN FALSE
             ELSE IF user_household = MultipleResultsFound THEN FALSE
             ELSE IF access_check = MultipleResultsFound THEN FALSE
             ELSE access_check # None

\* Mutant: edit rights decided like read rights.
can_user_edit_like_access(recipe_id, user_id) ==
    can_user_access_recipe(recipe_id, user_id)

\* RecipeService.can_user_edit_recipe
can_user_edit_recipe(recipe_id, user_id) ==
    recipe_owner(recipe_id) = user_id

\* ------------------------------------------------------- session mechanics

HouseholdIdsInUse ==
    {h.id : h \in households \cup UNION {session[q].new_households : q \in Sessions}}

\* Primary keys only tell rows apart.  A membership row is numbered among
\* the rows of its user, skipping the keys a running call of that user still
\* holds, and an access row among the rows of its (recipe, household) pair.
MembershipIdsInUse(user_id) ==
    {m.id : m \in {x \in household_memberships
                        \cup UNION {session[q].new_memberships : q \in Sessions} :
                   x.user_id = user_id}}
    \cup {session[q].membership : q \in {x \in Sessions :
                                             session[x].user_id = user_id}}

AccessIdsInUse(recipe_id, household_id) ==
    {g.id : g \in {x \in recipe_household_access :
        x.recipe_id = recipe_id /\ x.household_id = household_id}}
    \cup {session[q].access_grant :
              q \in {x \in Sessions :
                         /\ session[x].op = "revoke_household_access"
                         /\ session[x].recipe_id = recipe_id
                         /\ session[x].household = household_id}}

\* The call of session r ends by raising: get_db rolls the session back, so
\* the rows it flushed and did not commit are discarded.
Raise(r, error) ==
    [NoCall EXCEPT !.op = r.op, !.outcome = error, !.ncommit = r.ncommit]

\* The call of session r returns.
Return(r, value) ==
    [NoCall EXCEPT !.op = r.op, !.outcome = value, !.ncommit = r.ncommit]

\* Has session r flushed writes that its next commit makes visible?
HasWrites(r) ==
    r.new_households # {} \/ r.new_memberships # {} \/ r.dirty_user

\* Number of commits of the running call that published writes (capped).
CountCommit(r) == IF r.ncommit < 2 THEN r.ncommit + 1 ELSE r.ncommit

\* AsyncSession.commit() of session r, seen from the committed tables.
CommitSession(r) ==
    /\ households' = households \cup r.new_households
    /\ household_memberships' = household_memberships \cup r.new_memberships
    /\ current_household_id' =
           IF r.dirty_user
           THEN [current_household_id EXCEPT ![r.user_id] = r.household]
           ELSE current_household_id

\* The session record after its commit; `wrote` says whether the commit
\* published a row besides the flushed ones.
Committed(r, wrote) ==
    [r EXCEPT !.new_households = {}, !.new_memberships = {},
              !.dirty_user = FALSE,
              !.ncommit = IF wrote \/ HasWrites(r) THEN CountCommit(r)
                          ELSE r.ncommit]

\* ------------------------------------------------- HouseholdService.create

\* Mutant: the creator's membership left at the column default role.
creator_membership_default_role(id, household_id, user_id) ==
    [id |-> id, household_id |-> household_id, user_id |-> user_id,
     role |-> "member"]

\* HouseholdMembership(household_id=household.id, user_id=user_id, role="admin")
creator_membership(id, household_id, user_id) ==
    [id |-> id, household_id |-> household_id, user_id |-> user_id,
     role |-> "admin"]

\* Mutant: the joiner's membership created with the creator's role.
joiner_membership_admin(id, household_id, user_id) ==
    [id |-> id, household_id |-> household_id, user_id |-> user_id,
     role |-> "admin"]

\* HouseholdMembership(household_id=household.id, user_id=user_id, role="member")
joiner_membership(id, household_id, user_id) ==
    [id |-> id, household_id |-> household_id, user_id |-> user_id,
     role |-> "member"]

\* Mutant: the shared_with_household filter left out of the SELECT.
user_recipes_unfiltered(user_id) ==
    {x.id : x \in {y \in recipes : y.user_id = user_id}}

\* select(Recipe.id).where(Recipe.user_id == user_id,
\*                         Recipe.shared_with_household == True)
user_shared_recipes(user_id) ==
    {x.id : x \in {y \in recipes :
        y.user_id = user_id /\ y.shared_with_household}}

\* db.add(membership) followed by UserService.get_user: the SELECT autoflushes
\* the membership INSERT, then user.current_household_id = household.id marks
\* the user dirty when the value changes.
AddMembership(p, membership, nextpc) ==
    LET r == session[p] IN
    \/ /\ ~unique_user_household(household_memberships, membership)
       /\ session' = [session EXCEPT
              ![p] = Raise(r, "IntegrityError:unique_user_household")]
    \/ /\ unique_user_household(household_memberships, membership)
       /\ unique_user_household(OthersNewMemberships(p), membership)
       /\ session' = [session EXCEPT
              ![p] = [r EXCEPT !.new_memberships = {membership},
                               !.dirty_user =
                                   (current_household_id[r.user_id] # r.household),
                               !.pc = nextpc]]

\* Mutant: generate_invite_code returns the same code at every pass.
create_household_generate_fixed(p, user_id, invite_code) ==
    /\ \/ /\ Ready(p)
          /\ StartCall
          /\ Cardinality(households)
               + Cardinality({q \in Sessions :
                     InFlight(q) /\ session[q].op = "create_household"})
               < MaxHouseholds
       \/ /\ session[p].pc = "cr_generate"
          /\ session[p].user_id = user_id
          /\ UNCHANGED calls
    /\ LET r == IF Ready(p)
                THEN [NoCall EXCEPT !.op = "create_household",
                                    !.user_id = user_id]
                ELSE session[p]
       IN  session' = [session EXCEPT ![p] =
               IF get_household_by_invite_code(VisibleHouseholds(p), 1) # None
               THEN [r EXCEPT !.pc = "cr_generate"]
               ELSE [r EXCEPT !.pc = "cr_flush", !.invite_code = 1]]
    /\ UNCHANGED db
    /\ UNCHANGED <<catalog, kitchen>>

\* One pass of the invite-code loop: generate_invite_code() and the
\* get_household_by_invite_code test of the while.
create_household_generate(p, user_id, invite_code) ==
    /\ \/ /\ Ready(p)
          /\ StartCall
          /\ Cardinality(households)
               + Cardinality({q \in Sessions :
                     InFlight(q) /\ session[q].op = "create_household"})
               < MaxHouseholds
       \/ /\ session[p].pc = "cr_generate"
          /\ session[p].user_id = user_id
          /\ UNCHANGED calls
    /\ LET r == IF Ready(p)
                THEN [NoCall EXCEPT !.op = "create_household",
                                    !.user_id = user_id]
                ELSE session[p]
       IN  session' = [session EXCEPT ![p] =
               IF get_household_by_invite_code(VisibleHouseholds(p), invite_code)
                      # None
               THEN [r EXCEPT !.pc = "cr_generate"]
               ELSE [r EXCEPT !.pc = "cr_flush", !.invite_code = invite_code]]
    /\ UNCHANGED db
    /\ UNCHANGED <<catalog, kitchen>>

\* db.add(household); await db.flush()
create_household_flush(p) ==
    /\ session[p].pc = "cr_flush"
    /\ LET r == session[p]
           household == [id |-> FreshId(HouseholdIdsInUse),
                         invite_code |-> r.invite_code,
                         created_by |-> r.user_id]
       IN  \/ /\ ~unique_invite_code(households, household)
              /\ session' = [session EXCEPT
                     ![p] = Raise(r, "IntegrityError:households.invite_code")]
           \/ /\ unique_invite_code(households, household)
              /\ unique_invite_code(OthersNewHouseholds(p), household)
              /\ session' = [session EXCEPT
                     ![p] = [r EXCEPT !.new_households = {household},
                                      !.household = household.id,
                                      !.pc = "cr_get_user"]]
    /\ UNCHANGED <<db, calls>>
    /\ UNCHANGED <<catalog, kitchen>>

\* Mutant: the creator's membership is inserted whatever memberships the
\* user holds.
create_household_get_user_unconstrained(p) ==
    /\ session[p].pc = "cr_get_user"
    /\ session' = [session EXCEPT ![p] =
           [session[p] EXCEPT
               !.new_memberships =
                   {creator_membership(
                        FreshId(MembershipIdsInUse(session[p].user_id)),
                        session[p].household, session[p].user_id)},
               !.dirty_user = (current_household_id[session[p].user_id]
                                   # session[p].household),
               !.pc = "select_recipes"]]
    /\ UNCHANGED <<db, calls>>
    /\ UNCHANGED <<catalog, kitchen>>

\* db.add(membership); user = await UserService.get_user(...);
\* user.current_household_id = household.id
create_household_get_user(p) ==
    /\ session[p].pc = "cr_get_user"
    /\ AddMembership(p,
           creator_membership(FreshId(MembershipIdsInUse(session[p].user_id)),
                              session[p].household, session[p].user_id),
           "select_recipes")
    /\ UNCHANGED <<db, calls>>
    /\ UNCHANGED <<catalog, kitchen>>

\* ------------------------------------------------ grant propagation and grant

\* Mutant: the propagation finds nothing to grant.
grant_no_recipes_to_household(p) ==
    /\ session[p].pc = "select_recipes"
    /\ session' = [session EXCEPT ![p] =
           [session[p] EXCEPT !.todo = {}, !.pc = "commit"]]
    /\ UNCHANGED <<db, calls>>
    /\ UNCHANGED <<catalog, kitchen>>

\* The first statement of _grant_user_recipes_to_household.
grant_user_recipes_to_household(p) ==
    /\ session[p].pc = "select_recipes"
    /\ LET r == session[p]
           todo == user_shared_recipes(r.user_id)
       IN  session' = [session EXCEPT ![p] =
               [r EXCEPT !.todo = todo,
                         !.pc = IF todo = {} THEN "commit" ELSE "grant_check"]]
    /\ UNCHANGED <<db, calls>>
    /\ UNCHANGED <<catalog, kitchen>>

\* grant_household_access has returned `value` to the session r.
AfterGrant(r, recipe_id, value) ==
    IF r.op = "grant_household_access" THEN Return(r, value)
    ELSE [r EXCEPT !.recipe_id = None,
                   !.todo = r.todo \ {recipe_id},
                   !.pc = IF r.todo \ {recipe_id} = {} THEN "commit"
                          ELSE "grant_check"]

\* Mutant: grant_household_access without its existence check.
GrantUnchecked(r, recipe_id) ==
    [r EXCEPT !.recipe_id = recipe_id, !.pc = "grant_commit"]

\* The existence check of grant_household_access.
GrantCheck(r, recipe_id) ==
    LET found == existing_access(recipe_household_access, recipe_id, r.household)
    IN  IF found = None
        THEN [r EXCEPT !.recipe_id = recipe_id, !.pc = "grant_commit"]
        ELSE IF found = MultipleResultsFound
        THEN Raise(r, "MultipleResultsFound")
        ELSE AfterGrant(r, recipe_id, "None")

\* The existence check of grant_household_access, called by the propagation
\* loop for one of the selected recipes (the SELECT has no ORDER BY: any
\* order) or as a service operation of its own.
grant_household_access_check(p, recipe_id) ==
    /\ session[p].pc = "grant_check"
    /\ recipe_id \in session[p].todo
    /\ session' = [session EXCEPT ![p] = GrantCheck(session[p], recipe_id)]
    /\ UNCHANGED <<db, calls>>
    /\ UNCHANGED <<catalog, kitchen>>

\* grant_household_access called as a service operation of its own, for an
\* existing recipe and household.
grant_household_access_call(p, recipe_id, household_id) ==
    /\ Ready(p)
    /\ StartCall
    /\ recipe_id \in {x.id : x \in recipes}
    /\ household_id \in {h.id : h \in households}
    /\ session' = [session EXCEPT ![p] =
           [NoCall EXCEPT !.op = "grant_household_access",
                          !.household = household_id,
                          !.todo = {recipe_id},
                          !.pc = "grant_check"]]
    /\ UNCHANGED db
    /\ UNCHANGED <<catalog, kitchen>>

\* db.add(access_grant); await db.commit(): the INSERT and the commit of
\* everything the session has flushed so far.
grant_household_access_commit(p) ==
    /\ session[p].pc = "grant_commit"
    /\ LET r == session[p]
           access_grant == [id |-> FreshId(AccessIdsInUse(r.recipe_id,
                                                          r.household)),
                            recipe_id |-> r.recipe_id,
                            household_id |-> r.household]
       IN  \/ /\ ~unique_recipe_household_access(recipe_household_access,
                                                 access_grant)
              /\ session' = [session EXCEPT ![p] =
                     Raise(r, "IntegrityError:unique_recipe_household_access")]
              /\ UNCHANGED <<db, calls>>
           \/ /\ unique_recipe_household_access(recipe_household_access,
                                                access_grant)
              /\ CommitSession(r)
              /\ recipe_household_access' =
                     recipe_household_access \cup {access_grant}
              /\ session' = [session EXCEPT ![p] =
                     AfterGrant(Committed(r, TRUE), r.recipe_id,
                                "RecipeHouseholdAccess")]
              /\ UNCHANGED <<recipes, calls>>
    /\ UNCHANGED <<catalog, kitchen>>

\* The closing await db.commit() of create_household and join_household.
commit(p) ==
    /\ session[p].pc = "commit"
    /\ CommitSession(session[p])
    /\ session' = [session EXCEPT ![p] =
           Return(Committed(session[p], FALSE),
                  IF session[p].op = "create_household" THEN "Household"
                  ELSE "HouseholdMembership")]
    /\ UNCHANGED <<recipes, recipe_household_access, calls>>
    /\ UNCHANGED <<catalog, kitchen>>

\* --------------------------------------------------- HouseholdService.join

\* A join request arrives: join_household(db, user_id, invite_code).
join_household_call(p, user_id, invite_code) ==
    /\ Ready(p)
    /\ StartCall
    /\ session' = [session EXCEPT ![p] =
           [NoCall EXCEPT !.op = "join_household", !.user_id = user_id,
                          !.invite_code = invite_code, !.pc = "jn_lookup"]]
    /\ UNCHANGED db
    /\ UNCHANGED <<catalog, kitchen>>

\* household = await get_household_by_invite_code(db, invite_code);
\* if not household: return None
join_household_lookup(p) ==
    /\ session[p].pc = "jn_lookup"
    /\ LET r == session[p]
           household == get_household_by_invite_code(households, r.invite_code)
       IN  session' = [session EXCEPT ![p] =
               IF household = None THEN Return(r, "None")
               ELSE IF household = MultipleResultsFound
               THEN Raise(r, "MultipleResultsFound")
               ELSE [r EXCEPT !.household = household, !.pc = "jn_check"]]
    /\ UNCHANGED <<db, calls>>
    /\ UNCHANGED <<catalog, kitchen>>

\* The "already in a household" test; db.add(membership) when it passes.
join_household_check(p) ==
    /\ session[p].pc = "jn_check"
    /\ LET r == session[p]
           found == existing_membership(VisibleMemberships(p), r.user_id)
       IN  session' = [session EXCEPT ![p] =
               IF found = None THEN [r EXCEPT !.pc = "jn_get_user"]
               ELSE IF found = MultipleResultsFound
               THEN Raise(r, "MultipleResultsFound")
               ELSE Raise(r, "ValueError")]
    /\ UNCHANGED <<db, calls>>
    /\ UNCHANGED <<catalog, kitchen>>

\* user = await UserService.get_user(...); user.current_household_id = household.id
join_household_get_user(p) ==
    /\ session[p].pc = "jn_get_user"
    /\ AddMembership(p,
           joiner_membership(FreshId(MembershipIdsInUse(session[p].user_id)),
                             session[p].household, session[p].user_id),
           "select_recipes")
    /\ UNCHANGED <<db, calls>>
    /\ UNCHANGED <<catalog, kitchen>>

\* -------------------------------------------------- HouseholdService.leave

\* A leave request arrives: leave_household(db, user_id).
leave_household_call(p, user_id) ==
    /\ Ready(p)
    /\ StartCall
    /\ session' = [session EXCEPT ![p] =
           [NoCall EXCEPT !.op = "leave_household", !.user_id = user_id,
                          !.pc = "lv_select"]]
    /\ UNCHANGED db
    /\ UNCHANGED <<catalog, kitchen>>

\* The membership SELECT of leave_household; return False without one.
leave_household_select(p) ==
    /\ session[p].pc = "lv_select"
    /\ LET r == session[p]
           membership == existing_membership(household_memberships, r.user_id)
       IN  session' = [session EXCEPT ![p] =
               IF membership = None THEN Return(r, "False")
               ELSE IF membership = MultipleResultsFound
               THEN Raise(r, "MultipleResultsFound")
               ELSE [r EXCEPT !.membership = membership, !.pc = "lv_get_user"]]
    /\ UNCHANGED <<db, calls>>
    /\ UNCHANGED <<catalog, kitchen>>

\* Mutant: leave_household without the assignment to current_household_id.
leave_household_keep_current(p) ==
    /\ session[p].pc = "lv_get_user"
    /\ session' = [session EXCEPT ![p] = [session[p] EXCEPT !.pc = "lv_commit"]]
    /\ UNCHANGED <<db, calls>>
    /\ UNCHANGED <<catalog, kitchen>>

\* user = await UserService.get_user(...); user.current_household_id = None
leave_household_get_user(p) ==
    /\ session[p].pc = "lv_get_user"
    /\ session' = [session EXCEPT ![p] =
           [session[p] EXCEPT
               !.dirty_user = (current_household_id[session[p].user_id] # None),
               !.pc = "lv_commit"]]
    /\ UNCHANGED <<db, calls>>
    /\ UNCHANGED <<catalog, kitchen>>

\* Mutant: leaving also retracts the access rows of the household for the
\* recipes of the leaving user.
leave_household_commit_retracting(p) ==
    /\ session[p].pc = "lv_commit"
    /\ LET r == session[p]
           left == {m.household_id : m \in {x \in household_memberships :
                        x.user_id = r.user_id /\ x.id = r.membership}}
       IN
       /\ current_household_id' =
              IF r.dirty_user
              THEN [current_household_id EXCEPT ![r.user_id] = None]
              ELSE current_household_id
       /\ household_memberships' =
              {m \in household_memberships :
                  ~(m.user_id = r.user_id /\ m.id = r.membership)}
       /\ recipe_household_access' =
              {g \in recipe_household_access :
                  ~(/\ g.household_id \in left
                    /\ recipe_owner(g.recipe_id) = r.user_id)}
       /\ session' = [session EXCEPT ![p] = Return(Committed(r, TRUE), "True")]
    /\ UNCHANGED <<households, recipes, calls>>
    /\ UNCHANGED <<catalog, kitchen>>

\* await db.delete(membership); await db.commit(): the UPDATE of the user,
\* the DELETE by primary key (a row already gone deletes nothing) and the
\* commit.
leave_household_commit(p) ==
    /\ session[p].pc = "lv_commit"
    /\ LET r == session[p] IN
       /\ current_household_id' =
              IF r.dirty_user
              THEN [current_household_id EXCEPT ![r.user_id] = None]
              ELSE current_household_id
       /\ household_memberships' =
              {m \in household_memberships :
                  ~(m.user_id = r.user_id /\ m.id = r.membership)}
       /\ session' = [session EXCEPT ![p] = Return(Committed(r, TRUE), "True")]
    /\ UNCHANGED <<households, recipes, recipe_household_access, calls>>
    /\ UNCHANGED <<catalog, kitchen>>

\* The membership SELECT of remove_member; return False without a membership
\* of that user in that household.
remove_member_select(p, household_id, user_id) ==
    /\ Ready(p)
    /\ StartCall
    /\ LET r == [NoCall EXCEPT !.op = "remove_member", !.user_id = user_id,
                               !.household = household_id]
           membership ==
               existing_membership(
                   {m \in household_memberships : m.household_id = household_id},
                   user_id)
       IN  session' = [session EXCEPT ![p] =
               IF membership = None THEN Return(r, "False")
               ELSE IF membership = MultipleResultsFound
               THEN Raise(r, "MultipleResultsFound")
               ELSE [r EXCEPT !.membership = membership, !.pc = "rm_get_user"]]
    /\ UNCHANGED db
    /\ UNCHANGED <<catalog, kitchen>>

\* user = await UserService.get_user(...);
\* if user and user.current_household_id == household_id:
\*     user.current_household_id = None
remove_member_get_user(p) ==
    /\ session[p].pc = "rm_get_user"
    /\ session' = [session EXCEPT ![p] =
           [session[p] EXCEPT
               !.dirty_user = (current_household_id[session[p].user_id]
                                   = session[p].household),
               !.pc = "rm_commit"]]
    /\ UNCHANGED <<db, calls>>
    /\ UNCHANGED <<catalog, kitchen>>

\* await db.delete(membership); await db.commit() of remove_member.
remove_member_commit(p) ==
    /\ session[p].pc = "rm_commit"
    /\ LET r == session[p] IN
       /\ current_household_id' =
              IF r.dirty_user
              THEN [current_household_id EXCEPT ![r.user_id] = None]
              ELSE current_household_id
       /\ household_memberships' =
              {m \in household_memberships :
                  ~(m.user_id = r.user_id /\ m.id = r.membership)}
       /\ session' = [session EXCEPT ![p] = Return(Committed(r, TRUE), "True")]
    /\ UNCHANGED <<households, recipes, recipe_household_access, calls>>
    /\ UNCHANGED <<catalog, kitchen>>

\* ------------------------------------------------ routers/households.py

\* A membership role stored as NULL, a request body without a role.
NoRole == "null"

\* The role values a client may send, "owner" standing for every string
\* the pattern refuses.
RequestedRoles == {"admin", "member", NoRole, "owner"}

\* HouseholdMembershipUpdate.role:
\*     Optional[str] = Field(None, pattern="^(admin|member)$")
HouseholdMembershipUpdate(role) == role = NoRole \/ role \in {"admin", "member"}

\* CheckConstraint("role IN ('admin', 'member')", name="check_role") on a
\* nullable column: SQL accepts a row unless the condition is false, and it
\* is unknown for NULL.
check_role(role) == role = NoRole \/ role \in {"admin", "member"}

\* HouseholdService.get_household: the household row with its members
\* (selectinload), None without a row.
get_household(household_id) ==
    scalar_one_or_none({h.id : h \in {x \in households : x.id = household_id}})

\* household.members of the loaded household.
members(household_id) ==
    {m \in household_memberships : m.household_id = household_id}

\* The request ends with HTTPException(status_code=...) before the service
\* is called: nothing was written.
HTTPException(r, status_code) ==
    [r EXCEPT !.pc = "done", !.outcome = status_code, !.members = {}]

\* Mutant: the router lets every member through.
is_member(loaded, current_user) ==
    \E member \in loaded : member.user_id = current_user

\* The router's loop over household.members and its test
\* `not user_membership or user_membership.role != "admin"`, negated.
is_admin(loaded, current_user) ==
    \E member \in loaded :
        member.user_id = current_user /\ member.role = "admin"

\* The update_member_role endpoint up to its call of the service: body
\* validation (422), get_household (404) and the admin test (403).
router_update_member_role(p, current_user, household_id, user_id, role) ==
    /\ Ready(p)
    /\ StartCall
    /\ LET r == [NoCall EXCEPT !.op = "update_member_role",
                               !.current_user = current_user,
                               !.household = household_id,
                               !.user_id = user_id, !.role = role]
       IN  session' = [session EXCEPT ![p] =
               IF ~HouseholdMembershipUpdate(role)
               THEN HTTPException(r, "422")
               ELSE IF get_household(household_id) = None
               THEN HTTPException(r, "404")
               ELSE IF ~is_admin(members(household_id), current_user)
               THEN HTTPException(r, "403")
               ELSE [r EXCEPT !.members = members(household_id),
                              !.pc = "ur_select"]]
    /\ UNCHANGED db
    /\ UNCHANGED <<catalog, kitchen>>

\* The membership object a SELECT of the session yields for row `row`: the
\* session keeps the object get_household loaded for that primary key, a row
\* it meets for the first time is loaded as it is now.
loaded(r, row) ==
    LET known == {m \in r.members : m.user_id = row.user_id /\ m.id = row.id}
    IN  IF known # {} THEN known ELSE {row}

\* The membership SELECT of HouseholdService.update_member_role; None, which
\* the router answers with 404, without a membership of that user in that
\* household.
update_member_role_select(p) ==
    /\ session[p].pc = "ur_select"
    /\ LET r == session[p]
           found == {m \in household_memberships :
                        m.household_id = r.household /\ m.user_id = r.user_id}
           membership == scalar_one_or_none({m.id : m \in found})
       IN  session' = [session EXCEPT ![p] =
               IF membership = None THEN HTTPException(r, "404")
               ELSE IF membership = MultipleResultsFound
               THEN Raise(r, "MultipleResultsFound")
               ELSE [r EXCEPT !.membership = membership,
                              !.members = loaded(r, CHOOSE m \in found : TRUE),
                              !.pc = "ur_commit"]]
    /\ UNCHANGED <<db, calls>>
    /\ UNCHANGED <<catalog, kitchen>>

\* The role attribute of the membership object the service holds.
loaded_role(r) == (CHOOSE m \in r.members : TRUE).role

\* membership.role = role; await db.commit(); await db.refresh(membership):
\* an UPDATE by primary key when the attribute changed (StaleDataError when
\* the row is gone), then the SELECT of the refresh (InvalidRequestError
\* when the row is gone).
update_member_role_commit(p) ==
    /\ session[p].pc = "ur_commit"
    /\ LET r == session[p]
           row == {m \in household_memberships :
                       m.user_id = r.user_id /\ m.id = r.membership}
       IN  IF row = {}
           THEN /\ session' = [session EXCEPT ![p] =
                       Raise(r, IF loaded_role(r) # r.role
                                THEN "StaleDataError"
                                ELSE "InvalidRequestError")]
                /\ UNCHANGED household_memberships
           ELSE IF loaded_role(r) = r.role
           THEN /\ session' = [session EXCEPT ![p] =
                       Return(r, "HouseholdMembership")]
                /\ UNCHANGED household_memberships
           ELSE IF ~check_role(r.role)
           THEN /\ session' = [session EXCEPT ![p] =
                       Raise(r, "IntegrityError:check_role")]
                /\ UNCHANGED household_memberships
           ELSE /\ household_memberships' =
                       (household_memberships \ row)
                       \cup {[m EXCEPT !.role = r.role] : m \in row}
                /\ session' = [session EXCEPT ![p] =
                       Return(Committed(r, TRUE), "HouseholdMembership")]
    /\ UNCHANGED <<households, current_household_id, recipes,
                   recipe_household_access, calls>>
    /\ UNCHANGED <<catalog, kitchen>>

\* The remove_member endpoint up to its call of the service: get_household
\* (404), the admin test (403) and the refusal of a self-removal (400).
router_remove_member(p, current_user, household_id, user_id) ==
    /\ Ready(p)
    /\ StartCall
    /\ LET r == [NoCall EXCEPT !.op = "remove_member",
                               !.current_user = current_user,
                               !.household = household_id,
                               !.user_id = user_id]
       IN  session' = [session EXCEPT ![p] =
               IF get_household(household_id) = None
               THEN HTTPException(r, "404")
               ELSE IF ~is_admin(members(household_id), current_user)
               THEN HTTPException(r, "403")
               ELSE IF user_id = current_user
               THEN HTTPException(r, "400")
               ELSE [r EXCEPT !.pc = "rm_select"]]
    /\ UNCHANGED db
    /\ UNCHANGED <<catalog, kitchen>>

\* The membership SELECT of HouseholdService.remove_member called by the
\* endpoint; False, which the router answers with 404, without a membership
\* of that user in that household.
router_remove_member_select(p) ==
    /\ session[p].pc = "rm_select"
    /\ LET r == session[p]
           membership ==
               existing_membership(
                   {m \in household_memberships : m.household_id = r.household},
                   r.user_id)
       IN  session' = [session EXCEPT ![p] =
               IF membership = None THEN HTTPException(r, "404")
               ELSE IF membership = MultipleResultsFound
               THEN Raise(r, "MultipleResultsFound")
               ELSE [r EXCEPT !.membership = membership, !.pc = "rm_get_user"]]
    /\ UNCHANGED <<db, calls>>
    /\ UNCHANGED <<catalog, kitchen>>

\* ------------------------------------------------------------ RecipeService

\* Mutant: create_recipe also grants a shared recipe to the owner's household.
create_recipe_granting(user_id, shared_with_household) ==
    /\ StartCall
    /\ Cardinality(recipes) < MaxRecipes
    /\ LET id == FreshId({x.id : x \in recipes})
           household == get_user_household(user_id)
       IN  /\ recipes' = recipes \cup
                  {[id |-> id, user_id |-> user_id,
                    shared_with_household |-> shared_with_household]}
           /\ recipe_household_access' =
                  IF shared_with_household
                         /\ household \notin {None, MultipleResultsFound}
                  THEN recipe_household_access \cup
                           {[id |-> 1, recipe_id |-> id,
                             household_id |-> household]}
                  ELSE recipe_household_access
    /\ UNCHANGED <<households, household_memberships, current_household_id,
                   session>>
    /\ UNCHANGED <<catalog, kitchen>>

\* RecipeService.create_recipe: the recipe row, flushed and committed by the
\* one commit of the call.
create_recipe(user_id, shared_with_household) ==
    /\ StartCall
    /\ Cardinality(recipes) < MaxRecipes
    /\ recipes' = recipes \cup
           {[id |-> FreshId({x.id : x \in recipes}), user_id |-> user_id,
             shared_with_household |-> shared_with_household]}
    /\ UNCHANGED <<households, household_memberships, current_household_id,
                   recipe_household_access, session>>
    /\ UNCHANGED <<catalog, kitchen>>

\* RecipeService.update_recipe with recipe_data.shared_with_household set:
\* setattr on the loaded recipe and the commit.
update_recipe(recipe_id, shared_with_household) ==
    /\ StartCall
    /\ recipe_id \in {x.id : x \in recipes}
    /\ recipes' =
           {[x EXCEPT !.shared_with_household =
                 IF x.id = recipe_id THEN shared_with_household
                 ELSE x.shared_with_household] : x \in recipes}
    /\ UNCHANGED <<households, household_memberships, current_household_id,
                   recipe_household_access, session>>
    /\ UNCHANGED <<catalog, kitchen>>

\* revoke_household_access called for an existing recipe and household.
revoke_household_access_call(p, recipe_id, household_id) ==
    /\ Ready(p)
    /\ StartCall
    /\ recipe_id \in {x.id : x \in recipes}
    /\ household_id \in {h.id : h \in households}
    /\ session' = [session EXCEPT ![p] =
           [NoCall EXCEPT !.op = "revoke_household_access",
                          !.recipe_id = recipe_id,
                          !.household = household_id,
                          !.pc = "rv_select"]]
    /\ UNCHANGED db
    /\ UNCHANGED <<catalog, kitchen>>

\* The SELECT of revoke_household_access; return False without an access row.
revoke_household_access_select(p) ==
    /\ session[p].pc = "rv_select"
    /\ LET r == session[p]
           access_grant == existing_access(recipe_household_access,
                                           r.recipe_id, r.household)
       IN  session' = [session EXCEPT ![p] =
               IF access_grant = None THEN Return(r, "False")
               ELSE IF access_grant = MultipleResultsFound
               THEN Raise(r, "MultipleResultsFound")
               ELSE [r EXCEPT !.access_grant = access_grant,
                              !.pc = "rv_commit"]]
    /\ UNCHANGED <<db, calls>>
    /\ UNCHANGED <<catalog, kitchen>>

\* Mutant: revoke_household_access commits without deleting the row.
revoke_household_access_commit_keeping(p) ==
    /\ session[p].pc = "rv_commit"
    /\ session' = [session EXCEPT ![p] =
           Return(Committed(session[p], TRUE), "True")]
    /\ UNCHANGED <<db, calls>>
    /\ UNCHANGED <<catalog, kitchen>>

\* await db.delete(access_grant); await db.commit(): the DELETE by primary
\* key (a row already gone deletes nothing) and the commit.
revoke_household_access_commit(p) ==
    /\ session[p].pc = "rv_commit"
    /\ LET r == session[p] IN
       /\ recipe_household_access' =
              {g \in recipe_household_access :
                  ~(/\ g.recipe_id = r.recipe_id
                    /\ g.household_id = r.household
                    /\ g.id = r.access_grant)}
       /\ session' = [session EXCEPT ![p] = Return(Committed(r, TRUE), "True")]
    /\ UNCHANGED <<households, household_memberships, current_household_id,
                   recipes, calls>>
    /\ UNCHANGED <<catalog, kitchen>>

\* ------------------------------------- RecipeService.get_accessible_recipes

\* One entry of the returned list, `n` times in it:
\* {"recipe": recipe, "can_edit": ..., "access_type": ...}
Entry(recipe, user_id, n) ==
    [recipe |-> recipe.id, can_edit |-> recipe.user_id = user_id,
     access_type |-> IF recipe.user_id = user_id THEN "owner"
                     ELSE "household_shared",
     n |-> n]

\* The rows of
\*   select(Recipe)
\*     .outerjoin(RecipeHouseholdAccess, Recipe.id == ...recipe_id)
\*     .join(HouseholdMembership, ...household_id == ...household_id)
\*     .where(or_(Recipe.user_id == user_id,
\*                HouseholdMembership.user_id == user_id))
\* A recipe without an access row is joined to NULLs by the outer join, and
\* the inner join on household_id drops that row.
accessible_rows(user_id) ==
    {t \in recipes \X recipe_household_access \X household_memberships :
        /\ t[2].recipe_id = t[1].id
        /\ t[3].household_id = t[2].household_id
        /\ (t[1].user_id = user_id \/ t[3].user_id = user_id)}

\* result.scalars(): one Recipe per row, rows of one recipe not merged.
recipes_with_access(user_id) ==
    LET rows == accessible_rows(user_id)
    IN  {Entry(x, user_id, Cardinality({t \in rows : t[1] = x})) :
            x \in {t[1] : t \in rows}}

\* RecipeService.get_user_recipes as get_accessible_recipes wraps it.
get_user_recipes(user_id) ==
    {Entry(x, user_id, 1) : x \in {y \in recipes : y.user_id = user_id}}

\* get_accessible_recipes: HouseholdService.get_user_household.
get_accessible_recipes_call(p, user_id) ==
    /\ Ready(p)
    /\ StartCall
    /\ LET r == [NoCall EXCEPT !.op = "get_accessible_recipes",
                               !.user_id = user_id]
           user_household == get_user_household(user_id)
       IN  session' = [session EXCEPT ![p] =
               IF user_household = MultipleResultsFound
               THEN Raise(r, "MultipleResultsFound")
               ELSE IF user_household = None
               THEN [r EXCEPT !.pc = "ls_user_recipes"]
               ELSE [r EXCEPT !.household = user_household,
                              !.pc = "ls_select"]]
    /\ UNCHANGED db
    /\ UNCHANGED <<catalog, kitchen>>

\* The branch without a household: the user's own recipes, all editable.
get_accessible_recipes_user_recipes(p) ==
    /\ session[p].pc = "ls_user_recipes"
    /\ session' = [session EXCEPT ![p] =
           [session[p] EXCEPT !.pc = "done", !.outcome = "list",
                              !.result = get_user_recipes(session[p].user_id)]]
    /\ UNCHANGED <<db, calls>>
    /\ UNCHANGED <<catalog, kitchen>>

\* The branch with a household: the join query and the loop over its rows.
get_accessible_recipes_select(p) ==
    /\ session[p].pc = "ls_select"
    /\ session' = [session EXCEPT ![p] =
           [session[p] EXCEPT
               !.pc = "done", !.outcome = "list",
               !.result = recipes_with_access(session[p].user_id)]]
    /\ UNCHANGED <<db, calls>>
    /\ UNCHANGED <<catalog, kitchen>>

\* ------------------------------------------------- IngredientParsingService

\* Characters of ingredient names: a lower-case and an upper-case form of one
\* letter, another letter, and whitespace.
Chars == {"a", "A", "b", " "}

\* The ingredient names a call may be given (strings of up to MaxNameLen).
Names == UNION {[1..n -> Chars] : n \in 0..MaxNameLen}

\* str.strip(): leading and trailing whitespace removed.
RECURSIVE strip(_)
strip(name) ==
    IF name = <<>> THEN name
    ELSE IF Head(name) = " " THEN strip(Tail(name))
    ELSE IF name[Len(name)] = " " THEN strip(SubSeq(name, 1, Len(name) - 1))
    ELSE name

\* str.lower()
lower(name) == [i \in 1..Len(name) |-> IF name[i] = "A" THEN "a" ELSE name[i]]

\* Mutant: the name only trimmed, its case kept.
normalized_name_cased(ingredient_name) == strip(ingredient_name)

\* normalized_name = ingredient_name.strip().lower()
normalized_name(ingredient_name) == lower(strip(ingredient_name))

\* Ingredient.name = Column(String(255), unique=True, nullable=False): may
\* `row` be inserted beside `rows`?
unique_ingredient_name(rows, row) == \A i \in rows : i.name # row.name

\* select(Ingredient).where(Ingredient.name == normalized_name), .first()
existing_ingredient(name) ==
    LET found == {i.id : i \in {x \in ingredients : x.name = name}}
    IN  IF found = {} THEN None ELSE CHOOSE id \in found : TRUE

\* The lookup of a request between two calls.
NoLookup ==
    [pc |-> "done", ingredient_name |-> <<>>, name |-> <<>>,
     returned |-> FALSE, result |-> None]

StartLookup == calls < MaxLookupCalls /\ calls' = calls + 1

\* find_or_create_ingredient(db, ingredient_name): the guard on an empty name
\* and the normalization.
find_or_create_ingredient_call(p, ingredient_name) ==
    /\ ingredient_call[p].pc = "done"
    /\ StartLookup
    /\ ingredient_call' = [ingredient_call EXCEPT ![p] =
           IF ingredient_name = <<>>
           THEN [NoLookup EXCEPT !.returned = TRUE]
           ELSE [NoLookup EXCEPT !.pc = "select",
                                 !.ingredient_name = ingredient_name,
                                 !.name = normalized_name(ingredient_name)]]
    /\ UNCHANGED <<db, session, ingredients>>
    /\ UNCHANGED kitchen

\* The SELECT by normalized name; return the ingredient found.
find_or_create_ingredient_select(p) ==
    /\ ingredient_call[p].pc = "select"
    /\ LET r == ingredient_call[p]
           found == existing_ingredient(r.name)
       IN  ingredient_call' = [ingredient_call EXCEPT ![p] =
               IF found # None
               THEN [r EXCEPT !.pc = "done", !.returned = TRUE,
                              !.result = found]
               ELSE [r EXCEPT !.pc = "insert"]]
    /\ UNCHANGED <<db, session, calls, ingredients>>
    /\ UNCHANGED kitchen

\* db.add(new_ingredient); await db.commit(); on any exception: log,
\* rollback, return None.
find_or_create_ingredient_commit(p) ==
    /\ ingredient_call[p].pc = "insert"
    /\ LET r == ingredient_call[p]
           new_ingredient == [id |-> FreshId({i.id : i \in ingredients}),
                              name |-> r.name, category |-> None]
       IN  IF unique_ingredient_name(ingredients, new_ingredient)
           THEN /\ ingredients' = ingredients \cup {new_ingredient}
                /\ ingredient_call' = [ingredient_call EXCEPT ![p] =
                       [r EXCEPT !.pc = "done", !.returned = TRUE,
                                 !.result = new_ingredient.id]]
           ELSE /\ ingredients' = ingredients
                /\ ingredient_call' = [ingredient_call EXCEPT ![p] =
                       [r EXCEPT !.pc = "done", !.returned = TRUE,
                                 !.result = None]]
    /\ UNCHANGED <<db, session, calls>>
    /\ UNCHANGED kitchen

\* POST /ingredients: IngredientService.create_ingredient with the name as
\* given, refused when a row has that name.
create_ingredient(name, category) ==
    /\ StartLookup
    /\ name # <<>>
    /\ LET ingredient == [id |-> FreshId({i.id : i \in ingredients}),
                          name |-> name, category |-> category]
       IN  ingredients' =
               IF unique_ingredient_name(ingredients, ingredient)
               THEN ingredients \cup {ingredient}
               ELSE ingredients
    /\ UNCHANGED <<db, session, ingredient_call>>
    /\ UNCHANGED kitchen

\* ------------------------------------------------- recipes with their lines

\* The session of a request between two recipe creations.
NoRecipeCall ==
    [op |-> "none", pc |-> "done", outcome |-> "none", user_id |-> None,
     recipe |-> None, shared_with_household |-> TRUE, given |-> <<>>,
     i |-> 1, name |-> <<>>, in_transaction |-> FALSE, pending |-> {},
     original |-> None]

StartRecipeCall == calls < MaxRecipeCalls /\ calls' = calls + 1

\* The quantities and units of an ingredient line (None: not given).
Quantities == {None, 2, 3}
NoUnit == "null"
Units == {NoUnit, "cup", "gram"}

\* parse_ingredients_batch's records, as far as the creation reads them: the
\* name is strip().lower()ed by the parser, empty when no name was found.
ParsedIngredients ==
    [ingredient_name : {<<>>, <<"a">>, <<"b">>}, quantity : {None, 2},
     unit : {NoUnit}]

\* RecipeCreate.ingredients: RecipeIngredientCreate records.
IngredientData ==
    [ingredient_id : 1..2, quantity : {None, 2}, unit : {NoUnit}]

Batches(S) == UNION {[1..n -> S] : n \in 0..MaxLines}

\* Primary keys of recipes, the rows flushed by running creations included.
RecipeIdsInUse ==
    ({x.id : x \in recipes} \cup {recipe_call[q].recipe : q \in Sessions})
        \ {None}

\* RecipeIngredient(recipe_id=recipe.id, ingredient_id=..., quantity=...,
\* unit=..., order_index=...)
RecipeIngredient(recipe_id, k, ingredient_id, data, order_index) ==
    [id |-> <<recipe_id, k>>, recipe_id |-> recipe_id,
     ingredient_id |-> ingredient_id, quantity |-> data.quantity,
     unit |-> data.unit, order_index |-> order_index]

\* db.add(recipe_ingredient) for line i of the scraped data.
add_parsed_line(call, ingredient) ==
    [call EXCEPT
        !.pending = @ \cup {RecipeIngredient(call.recipe, call.i, ingredient,
                                             call.given[call.i], call.i - 1)},
        !.i = @ + 1]

\* The loop of create_recipe_from_scraped_data up to its next await: lines
\* without a name are added with ingredient None; a line with a name stops
\* at find_or_create_ingredient's SELECT; after the last line, the commit.
RECURSIVE next_lookup(_)
next_lookup(call) ==
    IF call.i > Len(call.given) THEN [call EXCEPT !.pc = "rc_commit"]
    ELSE IF call.given[call.i].ingredient_name = <<>>
         THEN next_lookup(add_parsed_line(call, None))
         ELSE [call EXCEPT
                  !.pc = "sc_select",
                  !.name = normalized_name(call.given[call.i].ingredient_name)]

\* Would flushing the pending lines raise IntegrityError?
\* recipe_ingredients.ingredient_id is NOT NULL and references ingredients;
\* recipe_id references recipes.
flush_fails(call) ==
    \E l \in call.pending :
        \/ l.ingredient_id = None
        \/ l.ingredient_id \notin {i.id : i \in ingredients}
        \/ ~call.in_transaction /\ l.recipe_id \notin {x.id : x \in recipes}

\* RecipeService.get_recipe: the recipe row (with its lines), None without.
get_recipe(recipe_id) ==
    scalar_one_or_none({x.id : x \in {y \in recipes : y.id = recipe_id}})

\* Mutant: the copy stays with the owner of the original.
new_recipe_user_id_kept(original_recipe, user_id) == recipe_owner(original_recipe)

\* Recipe(user_id=user_id, **new_recipe_data)
new_recipe_user_id(original_recipe, user_id) == user_id

\* The recipe row a commit of the call's transaction publishes.
flushed_recipe(call) ==
    IF call.in_transaction
    THEN {[id |-> call.recipe,
           user_id |-> IF call.op = "copy_recipe"
                       THEN new_recipe_user_id(call.original, call.user_id)
                       ELSE call.user_id,
           shared_with_household |-> call.shared_with_household]}
    ELSE {}

\* The call raises: get_db rolls the transaction back.
raise_rollback(call) ==
    [call EXCEPT !.pc = "done", !.outcome = "raised", !.pending = {},
                 !.in_transaction = FALSE]

\* create_recipe_from_scraped_data: Recipe(...), db.add(recipe),
\* await db.flush(), then the loop up to its first lookup.
create_recipe_from_scraped_data_flush(p, user_id, parsed_ingredients) ==
    /\ recipe_call[p].pc = "done"
    /\ StartRecipeCall
    /\ recipe_call' = [recipe_call EXCEPT ![p] =
           next_lookup([NoRecipeCall EXCEPT
               !.op = "create_recipe_from_scraped_data", !.pc = "sc_loop",
               !.user_id = user_id, !.recipe = FreshId(RecipeIdsInUse),
               !.given = parsed_ingredients, !.in_transaction = TRUE])]
    /\ UNCHANGED <<db, session, catalog, recipe_ingredients, planning,
                   parsing>>

\* find_or_create_ingredient's SELECT inside the creation; the session
\* autoflushes the pending lines first.  A row found is the line's ingredient.
create_recipe_from_scraped_data_select(p) ==
    /\ recipe_call[p].pc = "sc_select"
    /\ LET call == recipe_call[p]
           found == existing_ingredient(call.name)
       IN  recipe_call' = [recipe_call EXCEPT ![p] =
               IF flush_fails(call) THEN raise_rollback(call)
               ELSE IF found # None
                    THEN next_lookup(add_parsed_line(call, found))
                    ELSE [call EXCEPT !.pc = "sc_insert"]]
    /\ UNCHANGED <<db, session, calls, catalog, recipe_ingredients, planning,
                   parsing>>

\* find_or_create_ingredient's db.add(new_ingredient); await db.commit() on
\* the creation's own session: the commit publishes the recipe row and the
\* lines added so far together with the ingredient; on IntegrityError the
\* except branch rolls the whole transaction back and returns None.
create_recipe_from_scraped_data_insert(p) ==
    /\ recipe_call[p].pc = "sc_insert"
    /\ LET call == recipe_call[p]
           new_ingredient == [id |-> FreshId({i.id : i \in ingredients}),
                              name |-> call.name, category |-> None]
       IN  IF unique_ingredient_name(ingredients, new_ingredient)
           THEN /\ ingredients' = ingredients \cup {new_ingredient}
                /\ recipes' = recipes \cup flushed_recipe(call)
                /\ recipe_ingredients' = recipe_ingredients \cup call.pending
                /\ recipe_call' = [recipe_call EXCEPT ![p] =
                       next_lookup(add_parsed_line(
                           [call EXCEPT !.pending = {},
                                        !.in_transaction = FALSE],
                           new_ingredient.id))]
           ELSE /\ UNCHANGED <<ingredients, recipes, recipe_ingredients>>
                /\ recipe_call' = [recipe_call EXCEPT ![p] =
                       next_lookup(add_parsed_line(
                           [call EXCEPT !.pending = {},
                                        !.in_transaction = FALSE],
                           None))]
    /\ UNCHANGED <<households, household_memberships, current_household_id,
                   recipe_household_access, session, calls, ingredient_call,
                   planning>>
    /\ UNCHANGED parsing

\* RecipeService.create_recipe with recipe_data.ingredients given:
\* db.add(recipe), await db.flush(), then one RecipeIngredient per entry.
create_recipe_flush(p, user_id, shared_with_household, ingredient_data) ==
    /\ recipe_call[p].pc = "done"
    /\ StartRecipeCall
    /\ ingredient_data # <<>>
    /\ LET id == FreshId(RecipeIdsInUse)
       IN  recipe_call' = [recipe_call EXCEPT ![p] =
               [NoRecipeCall EXCEPT
                   !.op = "create_recipe", !.pc = "rc_commit",
                   !.user_id = user_id, !.recipe = id,
                   !.shared_with_household = shared_with_household,
                   !.given = ingredient_data, !.in_transaction = TRUE,
                   !.pending =
                       {RecipeIngredient(id, k,
                            ingredient_data[k].ingredient_id,
                            ingredient_data[k], 0) :
                          k \in 1..Len(ingredient_data)}]]
    /\ UNCHANGED <<db, session, catalog, recipe_ingredients, planning,
                   parsing>>

\* await db.commit() ending create_recipe and
\* create_recipe_from_scraped_data: the pending rows are flushed and
\* published, or the flush raises and nothing more is written.
recipe_commit(p) ==
    /\ recipe_call[p].pc = "rc_commit"
    /\ LET call == recipe_call[p]
       IN  IF flush_fails(call)
           THEN /\ UNCHANGED <<recipes, recipe_ingredients>>
                /\ recipe_call' = [recipe_call EXCEPT ![p] =
                       raise_rollback(call)]
           ELSE /\ recipes' = recipes \cup flushed_recipe(call)
                /\ recipe_ingredients' = recipe_ingredients \cup call.pending
                /\ recipe_call' = [recipe_call EXCEPT ![p] =
                       [call EXCEPT !.pc = "done", !.outcome = "returned",
                                    !.pending = {},
                                    !.in_transaction = FALSE]]
    /\ UNCHANGED <<households, household_memberships, current_household_id,
                   recipe_household_access, session, calls, catalog,
                   planning>>
    /\ UNCHANGED parsing

\* RecipeService.copy_recipe up to its commit: get_recipe (None without a
\* row), the new Recipe with shared_with_household True, await db.flush(),
\* then one RecipeIngredient per line of the original.
copy_recipe_flush(p, recipe_id, user_id) ==
    /\ recipe_call[p].pc = "done"
    /\ StartCall
    /\ Cardinality(RecipeIdsInUse) < MaxRecipes
    /\ LET original_recipe == get_recipe(recipe_id)
           id == FreshId(RecipeIdsInUse)
       IN  recipe_call' = [recipe_call EXCEPT ![p] =
               IF original_recipe = None
               THEN [NoRecipeCall EXCEPT !.op = "copy_recipe",
                                         !.outcome = "None"]
               ELSE [NoRecipeCall EXCEPT
                        !.op = "copy_recipe", !.pc = "rc_commit",
                        !.user_id = user_id,
                        !.original = original_recipe,
                        !.recipe = id, !.shared_with_household = TRUE,
                        !.in_transaction = TRUE,
                        !.pending =
                            {RecipeIngredient(id, orig_ingredient.id[2],
                                 orig_ingredient.ingredient_id,
                                 orig_ingredient,
                                 orig_ingredient.order_index) :
                               orig_ingredient \in
                                   {l \in recipe_ingredients :
                                        l.recipe_id = original_recipe}}]]
    /\ UNCHANGED <<db, session, catalog, recipe_ingredients, planning,
                   parsing>>

\* ------------------------------------------- meal plans and shopping lists

\* The session of a request between two shopping-list generations.
NoGeneration ==
    [pc |-> "done", outcome |-> "none", user_id |-> None,
     meal_plan_id |-> None, household_id |-> None, planned_meals |-> {},
     shopping_list |-> None, result |-> None]

StartPlanningCall == calls < MaxPlanningCalls /\ calls' = calls + 1

MealPlanIds == 1..2

\* Primary keys of shopping lists, the rows flushed by running generations
\* included.
ShoppingListIdsInUse ==
    ({l.id : l \in shopping_lists}
         \cup {shopping_call[q].shopping_list : q \in Sessions}) \ {None}

\* MealPlanService.create_meal_plan: the caller's household, ValueError
\* without one, else the MealPlan row and the commit.
create_meal_plan(user_id) ==
    /\ StartPlanningCall
    /\ LET user_household == get_user_household(user_id)
       IN  meal_plans' =
               IF user_household \in {None, MultipleResultsFound}
               THEN meal_plans
               ELSE meal_plans \cup
                        {[id |-> FreshId({m.id : m \in meal_plans}),
                          user_id |-> user_id,
                          household_id |-> user_household]}
    /\ UNCHANGED <<db, session, catalog, lines, planned_meals, shopping_lists,
                   shopping_list_items, shopping_call>>
    /\ UNCHANGED parsing

\* Mutant: a planned meal added to a plan also adds its recipe's lines to
\* the lists derived from the plan (the lists as a live view).
add_planned_meal_refreshing(meal_plan_id, recipe_id) ==
    /\ StartPlanningCall
    /\ meal_plan_id \in {m.id : m \in meal_plans}
    /\ recipe_id \in {x.id : x \in recipes}
    /\ planned_meals' = planned_meals \cup
           {[id |-> FreshId({m.id : m \in planned_meals}),
             meal_plan_id |-> meal_plan_id, recipe_id |-> recipe_id,
             completed |-> FALSE]}
    /\ shopping_list_items' = shopping_list_items \cup
           {[id |-> 100 + l.id, shopping_list_id |-> l.id,
             ingredient_id |-> x.ingredient_id, quantity |-> x.quantity,
             unit |-> x.unit, category |-> None] :
              l \in {y \in shopping_lists : y.meal_plan_id = meal_plan_id},
              x \in {y \in recipe_ingredients : y.recipe_id = recipe_id}}
    /\ UNCHANGED <<db, session, catalog, lines, meal_plans, shopping_lists,
                   shopping_call>>
    /\ UNCHANGED parsing

\* MealPlanService.add_planned_meal: the PlannedMeal row and the commit;
\* meal_plan_id and recipe_id are foreign keys.
add_planned_meal(meal_plan_id, recipe_id) ==
    /\ StartPlanningCall
    /\ planned_meals' =
           IF meal_plan_id \in {m.id : m \in meal_plans}
                  /\ recipe_id \in {x.id : x \in recipes}
           THEN planned_meals \cup
                    {[id |-> FreshId({m.id : m \in planned_meals}),
                      meal_plan_id |-> meal_plan_id, recipe_id |-> recipe_id,
                      completed |-> FALSE]}
           ELSE planned_meals
    /\ UNCHANGED <<db, session, catalog, lines, meal_plans, shopping_lists,
                   shopping_list_items, shopping_call>>
    /\ UNCHANGED parsing

\* MealPlanService.update_planned_meal with planned_meal_data.completed set.
update_planned_meal(planned_meal_id, completed) ==
    /\ StartPlanningCall
    /\ planned_meal_id \in {m.id : m \in planned_meals}
    /\ planned_meals' =
           {[m EXCEPT !.completed =
                 IF m.id = planned_meal_id THEN completed ELSE m.completed] :
              m \in planned_meals}
    /\ UNCHANGED <<db, session, catalog, lines, meal_plans, shopping_lists,
                   shopping_list_items, shopping_call>>
    /\ UNCHANGED parsing

\* RecipeService.delete_recipe: the recipe goes with its ingredient lines and
\* access rows (cascade="all, delete-orphan"); its planned meals would be
\* left with recipe_id NULL, which planned_meals.recipe_id refuses, so the
\* delete of a planned recipe raises and changes nothing.
delete_recipe(recipe_id) ==
    /\ StartPlanningCall
    /\ recipe_id \in {x.id : x \in recipes}
    /\ IF \E m \in planned_meals : m.recipe_id = recipe_id
       THEN UNCHANGED <<recipes, recipe_ingredients, recipe_household_access>>
       ELSE /\ recipes' = {x \in recipes : x.id # recipe_id}
            /\ recipe_ingredients' =
                   {l \in recipe_ingredients : l.recipe_id # recipe_id}
            /\ recipe_household_access' =
                   {g \in recipe_household_access : g.recipe_id # recipe_id}
    /\ UNCHANGED <<households, household_memberships, current_household_id,
                   session, catalog, recipe_call, planning>>
    /\ UNCHANGED parsing

\* ShoppingListService.create_shopping_list: the caller's household,
\* ValueError without one, else the ShoppingList row and the commit.
create_shopping_list(user_id, meal_plan_id) ==
    /\ StartPlanningCall
    /\ LET user_household == get_user_household(user_id)
       IN  shopping_lists' =
               IF user_household \in {None, MultipleResultsFound}
                      \/ meal_plan_id \notin {m.id : m \in meal_plans} \cup {None}
               THEN shopping_lists
               ELSE shopping_lists \cup
                        {[id |-> FreshId(ShoppingListIdsInUse),
                          meal_plan_id |-> meal_plan_id, user_id |-> user_id,
                          household_id |-> user_household]}
    /\ UNCHANGED <<db, session, catalog, lines, meal_plans, planned_meals,
                   shopping_list_items, shopping_call>>
    /\ UNCHANGED parsing

\* ShoppingListService.add_shopping_list_item: the item row and the commit;
\* shopping_list_id and ingredient_id are foreign keys.
add_shopping_list_item(shopping_list_id, ingredient_id, quantity, unit) ==
    /\ StartPlanningCall
    /\ shopping_list_items' =
           IF shopping_list_id \in {l.id : l \in shopping_lists}
                  /\ ingredient_id \in {i.id : i \in ingredients}
           THEN shopping_list_items \cup
                    {[id |-> FreshId({i.id : i \in shopping_list_items}),
                      shopping_list_id |-> shopping_list_id,
                      ingredient_id |-> ingredient_id, quantity |-> quantity,
                      unit |-> unit, category |-> None]}
           ELSE shopping_list_items
    /\ UNCHANGED <<db, session, catalog, lines, meal_plans, planned_meals,
                   shopping_lists, shopping_call>>
    /\ UNCHANGED parsing

\* Mutant: the generation goes on without checking that the plan was found.
generate_shopping_list_from_meal_plan_select_unchecked(p, user_id, meal_plan_id) ==
    /\ shopping_call[p].pc = "done"
    /\ StartPlanningCall
    /\ shopping_call' = [shopping_call EXCEPT ![p] =
           [NoGeneration EXCEPT
               !.pc = "gen_flush", !.user_id = user_id,
               !.meal_plan_id = meal_plan_id,
               !.household_id = get_user_household(user_id),
               !.planned_meals =
                   {m \in planned_meals : m.meal_plan_id = meal_plan_id}]]
    /\ UNCHANGED <<db, session, catalog, lines, meal_plans, planned_meals,
                   shopping_lists, shopping_list_items>>
    /\ UNCHANGED parsing

\* generate_shopping_list_from_meal_plan: MealPlanService.get_meal_plan,
\* which loads the plan, its planned meals and their recipes (selectinload),
\* and the ValueError("Meal plan not found") the router answers with 404.
generate_shopping_list_from_meal_plan_select(p, user_id, meal_plan_id) ==
    /\ shopping_call[p].pc = "done"
    /\ StartPlanningCall
    /\ LET meal_plan == {m \in meal_plans : m.id = meal_plan_id}
       IN  shopping_call' = [shopping_call EXCEPT ![p] =
               IF meal_plan = {}
               THEN [NoGeneration EXCEPT
                        !.outcome = "NotFound", !.user_id = user_id,
                        !.meal_plan_id = meal_plan_id]
               ELSE [NoGeneration EXCEPT
                        !.pc = "gen_flush", !.user_id = user_id,
                        !.meal_plan_id = meal_plan_id,
                        !.household_id =
                            (CHOOSE m \in meal_plan : TRUE).household_id,
                        !.planned_meals =
                            {m \in planned_meals :
                                m.meal_plan_id = meal_plan_id}]]
    /\ UNCHANGED <<db, session, catalog, lines, meal_plans, planned_meals,
                   shopping_lists, shopping_list_items>>
    /\ UNCHANGED parsing

\* ShoppingList(...), db.add, await db.flush(), then the aggregation loop.
\* For the first planned meal the loop reads planned_meal.recipe
\* .recipe_ingredients, a relationship get_meal_plan did not load: the
\* AsyncSession cannot load it on attribute access and raises
\* (MissingGreenlet), the router answers 400 and get_db rolls back.  Only a
\* plan without planned meals passes the loop, with nothing aggregated.
generate_shopping_list_from_meal_plan_flush(p) ==
    /\ shopping_call[p].pc = "gen_flush"
    /\ LET call == shopping_call[p]
       IN  shopping_call' = [shopping_call EXCEPT ![p] =
               IF call.planned_meals # {}
               THEN [call EXCEPT !.pc = "done", !.outcome = "raised"]
               ELSE [call EXCEPT !.pc = "gen_commit",
                        !.shopping_list = FreshId(ShoppingListIdsInUse)]]
    /\ UNCHANGED <<db, session, calls, catalog, lines, meal_plans,
                   planned_meals, shopping_lists, shopping_list_items>>
    /\ UNCHANGED parsing

\* Mutant: the list scoped to the requesting user's own household.
generated_shopping_list_of_caller(call) ==
    [id |-> call.shopping_list, meal_plan_id |-> call.meal_plan_id,
     user_id |-> call.user_id,
     household_id |-> get_user_household(call.user_id)]

\* The ShoppingList row of the generation: the requesting user, the meal
\* plan's household, the meal plan.
generated_shopping_list(call) ==
    [id |-> call.shopping_list, meal_plan_id |-> call.meal_plan_id,
     user_id |-> call.user_id, household_id |-> call.household_id]

\* One ShoppingListItem per key of ingredient_quantities (none: see above),
\* await db.commit(), refresh, return.
generate_shopping_list_from_meal_plan_commit(p) ==
    /\ shopping_call[p].pc = "gen_commit"
    /\ LET call == shopping_call[p]
       IN  /\ shopping_lists' =
                  shopping_lists \cup {generated_shopping_list(call)}
           /\ shopping_call' = [shopping_call EXCEPT ![p] =
                  [call EXCEPT !.pc = "done", !.outcome = "returned",
                               !.result = call.shopping_list]]
    /\ UNCHANGED <<db, session, calls, catalog, lines, meal_plans,
                   planned_meals, shopping_list_items>>
    /\ UNCHANGED parsing
\* ------------------------------------------------- ingredient text parsing

MaxBatch == 3

\* None for a name, a unit or notes, and for a quantity.
NoName == <<"None">>
NoNotes == "null"

\* Confidences in hundredths (0.8 is 80).
DefaultConfidence == 80
FallbackConfidence == 10

\* What ingredient_parser.parse_ingredient may answer for a text: it raises,
\* or gives amounts (quantity text, unit, confidence), names (text,
\* confidence), a comment and a preparation, each possibly missing.
ParsedAmounts ==
    {<<>>} \cup {<<a>> : a \in [quantity : {"", "2", "1-2"},
                                unit : {"", "cup"}, confidence : {60, 100}]}

ParsedNames ==
    {<<>>} \cup {<<n>> : n \in [text : {<<>>, <<"A">>, <<" ", "b">>},
                                confidence : {60, 100}]}

ParseOutcomes ==
    [raises : {TRUE}, amount : {<<>>}, name : {<<>>}, comment : {""},
     preparation : {""}]
    \cup [raises : {FALSE}, amount : ParsedAmounts, name : ParsedNames,
          comment : {"", "chopped"}, preparation : {"", "diced"}]

\* float(amount.quantity): defined on numerals only.
float_raises(quantity) == quantity \notin {"2"}

float(quantity) == IF quantity = "2" THEN 2 ELSE None

\* The except branch of parse_ingredient_string: the fallback record.
fallback_parsing(ingredient_text) ==
    [quantity |-> None, unit |-> NoUnit,
     ingredient_name |-> lower(strip(ingredient_text)), notes |-> NoNotes,
     raw_text |-> ingredient_text, parsing_confidence |-> FallbackConfidence,
     parsed_successfully |-> FALSE, raised |-> FALSE]

\* Does the try block of parse_ingredient_string raise?
try_raises(parsed) ==
    \/ parsed.raises
    \/ /\ parsed.amount # <<>>
       /\ parsed.amount[1].quantity # ""
       /\ float_raises(parsed.amount[1].quantity)

\* The try block of parse_ingredient_string when nothing raises.
try_parsing(ingredient_text, parsed) ==
    LET has_amount == parsed.amount # <<>>
        amount == parsed.amount[1]
        has_name == parsed.name # <<>>
        name == parsed.name[1]
        quantity == IF has_amount /\ amount.quantity # ""
                    THEN float(amount.quantity) ELSE None
        unit == IF has_amount /\ amount.unit # "" THEN amount.unit ELSE NoUnit
        amount_confidence ==
            IF has_amount THEN amount.confidence ELSE DefaultConfidence
        ingredient_name ==
            IF has_name /\ name.text # <<>> THEN name.text ELSE NoName
        name_confidence ==
            IF has_name THEN name.confidence ELSE DefaultConfidence
        notes == IF parsed.comment # "" THEN parsed.comment
                 ELSE IF parsed.preparation # "" THEN parsed.preparation
                 ELSE NoNotes
    IN  [quantity |-> quantity, unit |-> unit,
         ingredient_name |-> IF ingredient_name # NoName
                             THEN lower(strip(ingredient_name)) ELSE NoName,
         notes |-> notes, raw_text |-> ingredient_text,
         parsing_confidence |-> (amount_confidence + name_confidence) \div 2,
         parsed_successfully |-> TRUE, raised |-> FALSE]

\* IngredientParsingService.parse_ingredient_string, given what the parser
\* answers for the text.
parse_ingredient_string(ingredient_text, parsed) ==
    IF try_raises(parsed) THEN fallback_parsing(ingredient_text)
    ELSE try_parsing(ingredient_text, parsed)

NoParse ==
    [ingredient_text |-> <<>>, parsed |-> CHOOSE o \in ParseOutcomes : o.raises,
     returned |-> FALSE, result |-> fallback_parsing(<<>>)]

\* A call of parse_ingredient_string on its text.
parse_ingredient_string_call ==
    /\ ~parse_call.returned
    /\ parse_call' =
           [parse_call EXCEPT
               !.returned = TRUE,
               !.result = parse_ingredient_string(parse_call.ingredient_text,
                                                  parse_call.parsed)]
    /\ UNCHANGED <<db, session, calls, catalog, lines, planning, stats_call>>

\* The records of a batch, as far as get_parsing_stats reads them.
ParsedRecords ==
    [parsed_successfully : BOOLEAN,
     parsing_confidence : {FallbackConfidence, DefaultConfidence}]

ParsedBatches == UNION {[1..n -> ParsedRecords] : n \in 0..MaxBatch}

\* sum(1 for p in parsed_ingredients if p.get("parsed_successfully", False))
RECURSIVE successful_count(_)
successful_count(parsed_ingredients) ==
    IF parsed_ingredients = <<>> THEN 0
    ELSE (IF Head(parsed_ingredients).parsed_successfully THEN 1 ELSE 0)
             + successful_count(Tail(parsed_ingredients))

\* sum(p.get("parsing_confidence", 0) for p in parsed_ingredients)
RECURSIVE confidence_sum(_)
confidence_sum(parsed_ingredients) ==
    IF parsed_ingredients = <<>> THEN 0
    ELSE Head(parsed_ingredients).parsing_confidence
             + confidence_sum(Tail(parsed_ingredients))

\* A float quotient n / d, kept as the pair of its terms.
Quotient(n, d) == [num |-> n, den |-> d]

\* IngredientParsingService.get_parsing_stats
get_parsing_stats(parsed_ingredients) ==
    LET total_count == Len(parsed_ingredients)
    IN  IF total_count = 0
        THEN [total |-> 0, parsed_successfully |-> 0,
              success_rate |-> Quotient(0, 1)]
        ELSE [total |-> total_count,
              parsed_successfully |-> successful_count(parsed_ingredients),
              success_rate |->
                  Quotient(successful_count(parsed_ingredients), total_count),
              average_confidence |->
                  Quotient(confidence_sum(parsed_ingredients), total_count)]

NoStats ==
    [parsed_ingredients |-> <<>>, returned |-> FALSE,
     result |-> [total |-> 0]]

\* A call of get_parsing_stats on its batch.
get_parsing_stats_call ==
    /\ ~stats_call.returned
    /\ stats_call' =
           [stats_call EXCEPT
               !.returned = TRUE,
               !.result = get_parsing_stats(stats_call.parsed_ingredients)]
    /\ UNCHANGED <<db, session, calls, catalog, lines, planning, parse_call>>

ParsingIdle ==
    /\ parse_call = NoParse
    /\ stats_call = NoStats

KitchenInit ==
    /\ recipe_ingredients = {}
    /\ recipe_call = [p \in Sessions |-> NoRecipeCall]
    /\ meal_plans = {}
    /\ planned_meals = {}
    /\ shopping_lists = {}
    /\ shopping_list_items = {}
    /\ shopping_call = [p \in Sessions |-> NoGeneration]
    /\ ParsingIdle

\* ------------------------------------------------------------ specification

Init ==
    /\ households = {}
    /\ household_memberships = {}
    /\ current_household_id = [u \in Users |-> None]
    /\ recipes = {}
    /\ recipe_household_access = {}
    /\ session = [p \in Sessions |-> NoCall]
    /\ calls = 0
    /\ ingredients = {}
    /\ ingredient_call = [p \in Sessions |-> NoLookup]
    /\ KitchenInit

Next ==
    \/ \E p \in Sessions, u \in Users, c \in Codes :
           create_household_generate(p, u, c)
    \/ \E p \in Sessions : create_household_flush(p)
    \/ \E p \in Sessions : create_household_get_user(p)
    \/ \E p \in Sessions : grant_user_recipes_to_household(p)
    \/ \E p \in Sessions, r \in 1..MaxRecipes :
           grant_household_access_check(p, r)
    \/ \E p \in Sessions, r \in 1..MaxRecipes, h \in 1..MaxHouseholds :
           grant_household_access_call(p, r, h)
    \/ \E p \in Sessions : grant_household_access_commit(p)
    \/ \E p \in Sessions : commit(p)
    \/ \E p \in Sessions, u \in Users, c \in Codes :
           join_household_call(p, u, c)
    \/ \E p \in Sessions : join_household_lookup(p)
    \/ \E p \in Sessions : join_household_check(p)
    \/ \E p \in Sessions : join_household_get_user(p)
    \/ \E p \in Sessions, u \in Users : leave_household_call(p, u)
    \/ \E p \in Sessions : leave_household_select(p)
    \/ \E p \in Sessions : leave_household_get_user(p)
    \/ \E p \in Sessions : leave_household_commit(p)
    \/ \E p \in Sessions, h \in 1..MaxHouseholds, u \in Users :
           remove_member_select(p, h, u)
    \/ \E p \in Sessions : remove_member_get_user(p)
    \/ \E p \in Sessions : remove_member_commit(p)
    \/ \E u \in Users, b \in BOOLEAN : create_recipe(u, b)
    \/ \E r \in 1..MaxRecipes, b \in BOOLEAN : update_recipe(r, b)
    \/ \E p \in Sessions, r \in 1..MaxRecipes, h \in 1..MaxHouseholds :
           revoke_household_access_call(p, r, h)
    \/ \E p \in Sessions : revoke_household_access_select(p)
    \/ \E p \in Sessions : revoke_household_access_commit(p)

Spec == Init /\ [][Next]_vars

\* The ingredient catalog served to concurrent requests.
CatalogNext ==
    \/ \E p \in Sessions, n \in Names : find_or_create_ingredient_call(p, n)
    \/ \E p \in Sessions : find_or_create_ingredient_select(p)
    \/ \E p \in Sessions : find_or_create_ingredient_commit(p)
    \/ \E n \in Names, c \in {None, 1} : create_ingredient(n, c)

CatalogSpec == Init /\ [][CatalogNext]_vars

\* The steps of the call running in session p.  The event loop resumes every
\* coroutine whose await has completed, so a call that has started runs on
\* to its return; nothing forces a new request to arrive.
Resume(p) ==
    \/ /\ session[p].pc = "cr_generate"
       /\ \E u \in Users, c \in Codes : create_household_generate(p, u, c)
    \/ create_household_flush(p)
    \/ create_household_get_user(p)
    \/ grant_user_recipes_to_household(p)
    \/ \E r \in 1..MaxRecipes : grant_household_access_check(p, r)
    \/ grant_household_access_commit(p)
    \/ commit(p)
    \/ join_household_lookup(p)
    \/ join_household_check(p)
    \/ join_household_get_user(p)
    \/ leave_household_select(p)
    \/ leave_household_get_user(p)
    \/ leave_household_commit(p)
    \/ remove_member_get_user(p)
    \/ remove_member_commit(p)
    \/ revoke_household_access_select(p)
    \/ revoke_household_access_commit(p)

\* Starting states for a grant / revoke round trip: user 2 has created
\* household 1, user 1 has created recipe 1 (shared or not), and the household
\* holds an access row for the recipe or not (each is a state Spec reaches
\* by create_household, create_recipe and grant_household_access).
RoundTripInit ==
    /\ households = {[id |-> 1, invite_code |-> 1, created_by |-> 2]}
    /\ household_memberships = {creator_membership(1, 1, 2)}
    /\ current_household_id = [u \in Users |-> IF u = 2 THEN 1 ELSE None]
    /\ \E b \in BOOLEAN :
           recipes = {[id |-> 1, user_id |-> 1, shared_with_household |-> b]}
    /\ recipe_household_access \in
           {{}, {[id |-> 1, recipe_id |-> 1, household_id |-> 1]}}
    /\ session = [p \in Sessions |-> NoCall]
    /\ calls = 0
    /\ ingredients = {}
    /\ ingredient_call = [p \in Sessions |-> NoLookup]
    /\ KitchenInit

\* One client issuing MaxRoundTripCalls requests, each after the return of
\* the one before; every request runs to its return.
RoundTripNext ==
    /\ Next
    /\ calls' <= MaxRoundTripCalls
    /\ calls' # calls => \A p \in Sessions : Ready(p)

RoundTripSpec ==
    /\ RoundTripInit /\ [][RoundTripNext]_vars
    /\ \A p \in Sessions : WF_vars(Resume(p))

\* The program serving a scenario of MaxScenarioCalls requests, every one of
\* which runs to its return.
ScenarioNext == Next /\ calls' <= MaxScenarioCalls

ScenarioSpec ==
    /\ Init /\ [][ScenarioNext]_vars
    /\ \A p \in Sessions : WF_vars(Resume(p))

\* Recipe creations, with and without parsing, racing on the catalog.
LinesNext ==
    \/ \E p \in Sessions, u \in Users, g \in Batches(ParsedIngredients) :
           create_recipe_from_scraped_data_flush(p, u, g)
    \/ \E p \in Sessions : create_recipe_from_scraped_data_select(p)
    \/ \E p \in Sessions : create_recipe_from_scraped_data_insert(p)
    \/ \E p \in Sessions, u \in Users, b \in BOOLEAN,
          g \in Batches(IngredientData) : create_recipe_flush(p, u, b, g)
    \/ \E p \in Sessions : recipe_commit(p)

LinesSpec == Init /\ [][LinesNext]_vars

\* The household directory behind the endpoints of routers/households.py,
\* for a household that user 1 created and user 2 joined (the state after
\* create_household by user 1 and join_household by user 2); no recipes.
DirectoryInit ==
    /\ households = {[id |-> 1, invite_code |-> 1, created_by |-> 1]}
    /\ household_memberships =
           {creator_membership(1, 1, 1), joiner_membership(1, 1, 2)}
    /\ current_household_id = [u \in Users |-> 1]
    /\ recipes = {}
    /\ recipe_household_access = {}
    /\ session = [p \in Sessions |-> NoCall]
    /\ calls = 0
    /\ ingredients = {}
    /\ ingredient_call = [p \in Sessions |-> NoLookup]
    /\ KitchenInit

DirectoryRequests ==
    \/ \E p \in Sessions, u \in Users, c \in Codes :
           create_household_generate(p, u, c)
    \/ \E p \in Sessions : create_household_flush(p)
    \/ \E p \in Sessions : create_household_get_user(p)
    \/ \E p \in Sessions : grant_user_recipes_to_household(p)
    \/ \E p \in Sessions : commit(p)
    \/ \E p \in Sessions, u \in Users, c \in Codes :
           join_household_call(p, u, c)
    \/ \E p \in Sessions : join_household_lookup(p)
    \/ \E p \in Sessions : join_household_check(p)
    \/ \E p \in Sessions : join_household_get_user(p)
    \/ \E p \in Sessions, u \in Users : leave_household_call(p, u)
    \/ \E p \in Sessions : leave_household_select(p)
    \/ \E p \in Sessions : leave_household_get_user(p)
    \/ \E p \in Sessions : leave_household_commit(p)
    \/ \E p \in Sessions, a \in Users, h \in 1..MaxHouseholds, u \in Users,
          role \in RequestedRoles :
           router_update_member_role(p, a, h, u, role)
    \/ \E p \in Sessions : update_member_role_select(p)
    \/ \E p \in Sessions : update_member_role_commit(p)
    \/ \E p \in Sessions, a \in Users, h \in 1..MaxHouseholds, u \in Users :
           router_remove_member(p, a, h, u)
    \/ \E p \in Sessions : router_remove_member_select(p)
    \/ \E p \in Sessions : remove_member_get_user(p)
    \/ \E p \in Sessions : remove_member_commit(p)

DirectoryNext == DirectoryRequests /\ calls' <= MaxDirectoryCalls

DirectorySpec == DirectoryInit /\ [][DirectoryNext]_vars

\* A recipe book to copy from: user 1 has created household 1, ingredient 1
\* and the shared recipe 1 with two lines, which household 1 has been
\* granted; user 2 is in no household.
OwnershipInit ==
    /\ households = {[id |-> 1, invite_code |-> 1, created_by |-> 1]}
    /\ household_memberships = {creator_membership(1, 1, 1)}
    /\ current_household_id = [u \in Users |-> IF u = 1 THEN 1 ELSE None]
    /\ recipes = {[id |-> 1, user_id |-> 1, shared_with_household |-> TRUE]}
    /\ recipe_household_access =
           {[id |-> 1, recipe_id |-> 1, household_id |-> 1]}
    /\ session = [p \in Sessions |-> NoCall]
    /\ calls = 0
    /\ ingredients = {[id |-> 1, name |-> <<"a">>, category |-> 1]}
    /\ ingredient_call = [p \in Sessions |-> NoLookup]
    /\ recipe_ingredients =
           {RecipeIngredient(1, 1, 1, [quantity |-> 2, unit |-> "cup"], 0),
            RecipeIngredient(1, 2, 1, [quantity |-> 3, unit |-> "gram"], 0)}
    /\ recipe_call = [p \in Sessions |-> NoRecipeCall]
    /\ meal_plans = {}
    /\ planned_meals = {}
    /\ shopping_lists = {}
    /\ shopping_list_items = {}
    /\ shopping_call = [p \in Sessions |-> NoGeneration]
    /\ ParsingIdle

OwnershipRequests ==
    \/ \E r \in 1..MaxRecipes, b \in BOOLEAN : update_recipe(r, b)
    \/ \E p \in Sessions, r \in 1..MaxRecipes, u \in Users :
           copy_recipe_flush(p, r, u)
    \/ \E p \in Sessions : recipe_commit(p)
    \/ \E p \in Sessions, r \in 1..MaxRecipes, h \in 1..MaxHouseholds :
           grant_household_access_call(p, r, h)
    \/ \E p \in Sessions, r \in 1..MaxRecipes :
           grant_household_access_check(p, r)
    \/ \E p \in Sessions : grant_household_access_commit(p)
    \/ \E p \in Sessions, r \in 1..MaxRecipes, h \in 1..MaxHouseholds :
           revoke_household_access_call(p, r, h)
    \/ \E p \in Sessions : revoke_household_access_select(p)
    \/ \E p \in Sessions : revoke_household_access_commit(p)
    \/ \E p \in Sessions, u \in Users, c \in Codes :
           create_household_generate(p, u, c)
    \/ \E p \in Sessions : create_household_flush(p)
    \/ \E p \in Sessions : create_household_get_user(p)
    \/ \E p \in Sessions : grant_user_recipes_to_household(p)
    \/ \E p \in Sessions : commit(p)
    \/ \E p \in Sessions, u \in Users, c \in Codes :
           join_household_call(p, u, c)
    \/ \E p \in Sessions : join_household_lookup(p)
    \/ \E p \in Sessions : join_household_check(p)
    \/ \E p \in Sessions : join_household_get_user(p)
    \/ \E p \in Sessions, u \in Users : leave_household_call(p, u)
    \/ \E p \in Sessions : leave_household_select(p)
    \/ \E p \in Sessions : leave_household_get_user(p)
    \/ \E p \in Sessions : leave_household_commit(p)

OwnershipNext == OwnershipRequests /\ calls' <= MaxOwnershipCalls

OwnershipSpec == OwnershipInit /\ [][OwnershipNext]_vars

\* The recipe book of OwnershipInit read through get_accessible_recipes
\* while recipes are created, shared and unshared and users join and leave.
ListingRequests ==
    \/ \E u \in Users, b \in BOOLEAN : create_recipe(u, b)
    \/ \E p \in Sessions, r \in 1..MaxRecipes, h \in 1..MaxHouseholds :
           grant_household_access_call(p, r, h)
    \/ \E p \in Sessions, r \in 1..MaxRecipes :
           grant_household_access_check(p, r)
    \/ \E p \in Sessions : grant_household_access_commit(p)
    \/ \E p \in Sessions, r \in 1..MaxRecipes, h \in 1..MaxHouseholds :
           revoke_household_access_call(p, r, h)
    \/ \E p \in Sessions : revoke_household_access_select(p)
    \/ \E p \in Sessions : revoke_household_access_commit(p)
    \/ \E p \in Sessions, u \in Users, c \in Codes :
           join_household_call(p, u, c)
    \/ \E p \in Sessions : join_household_lookup(p)
    \/ \E p \in Sessions : join_household_check(p)
    \/ \E p \in Sessions : join_household_get_user(p)
    \/ \E p \in Sessions : grant_user_recipes_to_household(p)
    \/ \E p \in Sessions : commit(p)
    \/ \E p \in Sessions, u \in Users : leave_household_call(p, u)
    \/ \E p \in Sessions : leave_household_select(p)
    \/ \E p \in Sessions : leave_household_get_user(p)
    \/ \E p \in Sessions : leave_household_commit(p)
    \/ \E p \in Sessions, u \in Users : get_accessible_recipes_call(p, u)
    \/ \E p \in Sessions : get_accessible_recipes_user_recipes(p)
    \/ \E p \in Sessions : get_accessible_recipes_select(p)

ListingNext == ListingRequests /\ calls' <= MaxListingCalls

ListingSpec == OwnershipInit /\ [][ListingNext]_vars

\* Meal planning in a household that user 1 created and user 2 is not a
\* member of, with an ingredient and two recipes of user 1 that each have
\* a line for it (2 cups, 3 grams).
PlanningInit ==
    /\ households = {[id |-> 1, invite_code |-> 1, created_by |-> 1]}
    /\ household_memberships = {creator_membership(1, 1, 1)}
    /\ current_household_id = [u \in Users |-> IF u = 1 THEN 1 ELSE None]
    /\ recipes = {[id |-> x, user_id |-> 1, shared_with_household |-> TRUE] :
                    x \in 1..2}
    /\ recipe_household_access = {}
    /\ session = [p \in Sessions |-> NoCall]
    /\ calls = 0
    /\ ingredients = {[id |-> 1, name |-> <<"a">>, category |-> 1]}
    /\ ingredient_call = [p \in Sessions |-> NoLookup]
    /\ recipe_ingredients =
           {RecipeIngredient(1, 1, 1, [quantity |-> 2, unit |-> "cup"], 0),
            RecipeIngredient(2, 1, 1, [quantity |-> 3, unit |-> "gram"], 0)}
    /\ recipe_call = [p \in Sessions |-> NoRecipeCall]
    /\ meal_plans = {}
    /\ planned_meals = {}
    /\ shopping_lists = {}
    /\ shopping_list_items = {}
    /\ shopping_call = [p \in Sessions |-> NoGeneration]
    /\ ParsingIdle

PlanningNext ==
    \/ \E u \in Users : create_meal_plan(u)
    \/ \E m \in MealPlanIds, x \in 1..MaxRecipes : add_planned_meal(m, x)
    \/ \E m \in 1..2, b \in BOOLEAN : update_planned_meal(m, b)
    \/ \E x \in 1..MaxRecipes, b \in BOOLEAN : update_recipe(x, b)
    \/ \E x \in 1..MaxRecipes : delete_recipe(x)
    \/ \E u \in Users, m \in MealPlanIds \cup {None} :
           create_shopping_list(u, m)
    \/ \E l \in 1..2, q \in Quantities, n \in Units :
           add_shopping_list_item(l, 1, q, n)
    \/ \E p \in Sessions, u \in Users, m \in MealPlanIds :
           generate_shopping_list_from_meal_plan_select(p, u, m)
    \/ \E p \in Sessions : generate_shopping_list_from_meal_plan_flush(p)
    \/ \E p \in Sessions : generate_shopping_list_from_meal_plan_commit(p)

PlanningSpec == PlanningInit /\ [][PlanningNext]_vars

\* The store before any request.
Idle ==
    /\ households = {}
    /\ household_memberships = {}
    /\ current_household_id = [u \in Users |-> None]
    /\ recipes = {}
    /\ recipe_household_access = {}
    /\ session = [p \in Sessions |-> NoCall]
    /\ calls = 0
    /\ ingredients = {}
    /\ ingredient_call = [p \in Sessions |-> NoLookup]
    /\ recipe_ingredients = {}
    /\ recipe_call = [p \in Sessions |-> NoRecipeCall]
    /\ meal_plans = {}
    /\ planned_meals = {}
    /\ shopping_lists = {}
    /\ shopping_list_items = {}
    /\ shopping_call = [p \in Sessions |-> NoGeneration]

\* parse_ingredient_string on every text and every answer of the parser.
ParseInit ==
    /\ Idle
    /\ parse_call \in [ingredient_text : Names, parsed : ParseOutcomes,
                       returned : {FALSE}, result : {NoParse.result}]
    /\ stats_call = NoStats

ParseSpec == ParseInit /\ [][parse_ingredient_string_call]_vars

\* get_parsing_stats on every batch.
StatsInit ==
    /\ Idle
    /\ parse_call = NoParse
    /\ stats_call \in [parsed_ingredients : ParsedBatches,
                       returned : {FALSE}, result : {NoStats.result}]

StatsSpec == StatsInit /\ [][get_parsing_stats_call]_vars

\* ------------------------------------------------------------------ claims

CallErrors ==
    {"IntegrityError:households.invite_code",
     "IntegrityError:unique_user_household",
     "IntegrityError:unique_recipe_household_access",
     "MultipleResultsFound", "ValueError"}

HouseholdCalls == {"create_household", "join_household"}

\* C1: in every committed state, whatever the interleaving of join and create
\* calls, every user has at most one household_memberships row.
C1_AtMostOneMembership ==
    \A u \in Users :
        Cardinality({m \in household_memberships : m.user_id = u}) <= 1

\* Two joins of one user with different invite codes have both passed the
\* membership test, and one of them has flushed its membership.
C1_Witness ==
    \E p, q \in Sessions :
        /\ session[p].op = "join_household" /\ session[q].op = "join_household"
        /\ session[p].user_id = session[q].user_id
        /\ session[p].invite_code # session[q].invite_code
        /\ session[p].new_memberships # {}
        /\ session[q].pc = "jn_get_user"

\* C2: can_user_access_recipe(recipe, user) is true exactly when the user owns
\* the recipe or has a membership in a household that holds an access row for
\* it; without a membership only owned recipes are accessible.
C2_CanAccessIffOwnerOrGrant ==
    \A x \in recipes, u \in Users :
        LET granted ==
                \E m \in household_memberships :
                    /\ m.user_id = u
                    /\ \E g \in recipe_household_access :
                           g.recipe_id = x.id /\ g.household_id = m.household_id
        IN  /\ can_user_access_recipe(x.id, u) <=> (x.user_id = u \/ granted)
            /\ (\A m \in household_memberships : m.user_id # u)
                   => (can_user_access_recipe(x.id, u) <=> x.user_id = u)

\* A user reads, through the household, a recipe of somebody else while a
\* second household holds no access row for it.
C2_Witness ==
    \E x \in recipes, u \in Users :
        /\ x.user_id # u
        /\ can_user_access_recipe(x.id, u)
        /\ Cardinality(households) = 2

C3_State ==
    \A x \in recipes, u \in Users :
        can_user_edit_recipe(x.id, u) <=> (x.user_id = u)

C3_Step ==
    \A x \in recipes :
        /\ \E y \in recipes' : y.id = x.id /\ y.user_id = x.user_id
        /\ \A u \in Users :
               can_user_edit_recipe(x.id, u)' = can_user_edit_recipe(x.id, u)

\* C3: can_user_edit_recipe(recipe, user) holds exactly for the recipe's
\* owner, and no step (grant, join, create, leave) changes the owner of a
\* recipe or the answer for any user.
C3_CanEditIffOwner == []C3_State /\ [][C3_Step]_vars

\* A household member can read a recipe of somebody else and cannot edit it.
C3_Witness ==
    \E x \in recipes, u \in Users :
        /\ x.user_id # u
        /\ can_user_access_recipe(x.id, u)
        /\ ~can_user_edit_recipe(x.id, u)

\* C4: the commit that publishes a new household publishes with it exactly
\* one admin membership of that household, held by the creator, and the
\* creator's current_household_id pointing at it.
C4_CreatePublishesAdmin ==
    [][\A h \in households' \ households :
          LET admins == {m \in household_memberships' :
                            m.household_id = h.id /\ m.role = "admin"}
          IN  /\ Cardinality(admins) = 1
              /\ \A m \in admins : m.user_id = h.created_by
              /\ current_household_id'[h.created_by] = h.id]_vars

\* A create_household call has returned its household, which has its admin.
C4_Witness ==
    \E p \in Sessions :
        /\ session[p].op = "create_household"
        /\ session[p].outcome = "Household"
        /\ \E h \in households, m \in household_memberships :
               m.household_id = h.id /\ m.role = "admin"
                   /\ m.user_id = h.created_by

\* C5: a create_household or join_household call publishes its writes at a
\* single commit (at most one of its commits makes rows visible).
C5_SingleCommitPoint ==
    \A p \in Sessions :
        session[p].op \in HouseholdCalls => session[p].ncommit <= 1

\* C6: a create_household or join_household call that ends in an error has
\* published none of its writes.
C6_FailureLeavesNothing ==
    \A p \in Sessions :
        (session[p].op \in HouseholdCalls /\ session[p].outcome \in CallErrors)
            => session[p].ncommit = 0

\* C7: no two committed households hold the same invite code.
C7_InviteCodesUnique ==
    \A h1, h2 \in households :
        h1.invite_code = h2.invite_code => h1 = h2

\* Two households exist after a create call lost the insert race for a code.
C7_Witness ==
    /\ Cardinality(households) = 2
    /\ \E p \in Sessions :
           session[p].outcome = "IntegrityError:households.invite_code"

\* C8: a create_household call that loses the insert race for its invite code
\* retries and surfaces no error.
C8_CodeRaceSurfacesNoError ==
    \A p \in Sessions :
        ~(/\ session[p].op = "create_household"
          /\ session[p].outcome = "IntegrityError:households.invite_code")

\* C9: when join_household reaches its membership test for a user who has a
\* membership, the call ends with the ValueError ("already in a household")
\* and no table changes.
C9_JoinAlreadyMember ==
    [][\A p \in Sessions :
          (/\ session[p].pc = "jn_check"
           /\ session'[p] # session[p]
           /\ \E m \in household_memberships : m.user_id = session[p].user_id)
          => (/\ session'[p].pc = "done"
              /\ session'[p].outcome = "ValueError"
              /\ session'[p].ncommit = 0
              /\ db' = db)]_vars

\* A join with a valid code was refused for a user who is in a household.
C9_Witness ==
    \E p \in Sessions :
        /\ session[p].op = "join_household"
        /\ session[p].outcome = "ValueError"
        /\ household_memberships # {}

\* C10: when join_household looks up a code that no household holds, it
\* returns None and no table changes.
C10_JoinUnknownCode ==
    [][\A p \in Sessions :
          (/\ session[p].pc = "jn_lookup"
           /\ session'[p] # session[p]
           /\ \A h \in households : h.invite_code # session[p].invite_code)
          => (/\ session'[p].pc = "done"
              /\ session'[p].outcome = "None"
              /\ session'[p].ncommit = 0
              /\ db' = db)]_vars

\* A join returned None while a household with another code exists.
C10_Witness ==
    \E p \in Sessions :
        /\ session[p].op = "join_household"
        /\ session[p].outcome = "None"
        /\ households # {}

\* C11: the commit by which a join_household call publishes its membership
\* adds exactly one row, with role "member", for the joining user in the
\* household holding the invite code, sets that user's current_household_id
\* to the household and touches no other membership or user; a join that
\* returns its membership has made such a commit.
C11_JoinAddsOneMember ==
    [][\A p \in Sessions :
          /\ (/\ session[p].op = "join_household"
              /\ session'[p] # session[p]
              /\ household_memberships' # household_memberships)
             => LET r == session[p]
                    added == household_memberships' \ household_memberships
                IN  /\ household_memberships \subseteq household_memberships'
                    /\ Cardinality(added) = 1
                    /\ \A m \in added :
                           /\ m.role = "member"
                           /\ m.user_id = r.user_id
                           /\ \E h \in households :
                                  /\ h.id = m.household_id
                                  /\ h.invite_code = r.invite_code
                           /\ current_household_id'[r.user_id] = m.household_id
                    /\ \A v \in Users \ {r.user_id} :
                           current_household_id'[v] = current_household_id[v]
          /\ (/\ session[p].op = "join_household"
              /\ session'[p].outcome = "HouseholdMembership"
              /\ session[p].outcome # "HouseholdMembership")
             => session'[p].ncommit >= 1]_vars

\* A join has returned its membership and a member-role row is committed.
C11_Witness ==
    \E p \in Sessions :
        /\ session[p].op = "join_household"
        /\ session[p].outcome = "HouseholdMembership"
        /\ \E m \in household_memberships : m.role = "member"

HouseholdReturns == {"Household", "HouseholdMembership"}

\* C12: a create_household or join_household call of user u into household H
\* takes as its propagation set exactly the recipes owned by u that are
\* flagged shared_with_household when it selects them; every recipe it works
\* off that set has an access row of H; it returns successfully only with the
\* set worked off; it adds access rows only for H and recipes of that set,
\* and removes none.
C12_PropagatesSharedRecipes ==
    [][\A p \in Sessions :
          (session[p].op \in HouseholdCalls /\ session'[p] # session[p])
          => LET r == session[p]
                 n == session'[p]
             IN  /\ (r.pc = "select_recipes")
                        => n.todo = {x.id : x \in {y \in recipes :
                               y.user_id = r.user_id /\ y.shared_with_household}}
                 /\ (r.pc \in {"grant_check", "grant_commit"}
                         /\ n.pc \in {"grant_check", "commit"})
                        => \A x \in r.todo \ n.todo :
                               \E g \in recipe_household_access' :
                                   g.recipe_id = x /\ g.household_id = r.household
                 /\ (n.outcome \in HouseholdReturns) => r.todo = {}
                 /\ recipe_household_access \subseteq recipe_household_access'
                 /\ \A g \in recipe_household_access'
                                \ recipe_household_access :
                        /\ g.household_id = r.household
                        /\ g.recipe_id \in r.todo
                        /\ \E x \in recipes :
                               x.id = g.recipe_id /\ x.user_id = r.user_id]_vars

\* After three calls (two recipes created by one user, one of them shared,
\* and that user's household call, which has returned) the household holds
\* an access row for the shared recipe and none for the other one.
C12_Witness ==
    /\ calls = 3
    /\ \E p \in Sessions : session[p].outcome \in HouseholdReturns
    /\ \E x, y \in recipes :
           /\ x.user_id = y.user_id
           /\ x.shared_with_household /\ ~y.shared_with_household
           /\ \E g \in recipe_household_access : g.recipe_id = x.id
           /\ \A g \in recipe_household_access : g.recipe_id # y.id

AllReturned == \A p \in Sessions : Ready(p)

\* Call number k was create_household by user a and made household h.
CreatedHousehold(k, a, h) ==
    /\ calls = k /\ AllReturned
    /\ \E x \in households : x.id = h /\ x.created_by = a
    /\ \E m \in household_memberships :
           m.household_id = h /\ m.user_id = a /\ m.role = "admin"

\* Call number k was create_recipe by user a, shared_with_household = true.
CreatedSharedRecipe(k, a, x) ==
    /\ calls = k /\ AllReturned
    /\ \E y \in recipes :
           y.id = x /\ y.user_id = a /\ y.shared_with_household

\* Call number k was join_household by user b and made b a member of h.
JoinedHousehold(k, b, h) ==
    /\ calls = k /\ AllReturned
    /\ \E m \in household_memberships :
           m.household_id = h /\ m.user_id = b /\ m.role = "member"

ReadsButCannotEdit(x, b) ==
    can_user_access_recipe(x, b) /\ ~can_user_edit_recipe(x, b)

\* C13 as stated: user a creates household h, then creates recipe x with
\* shared_with_household = true, then user b joins h: after the join b can
\* access x and cannot edit it.
C13_JoinerReadsLaterSharedRecipe ==
    \A a \in Users : \A b \in Users \ {a} :
        \A h \in 1..MaxHouseholds : \A x \in 1..MaxRecipes :
            [](CreatedHousehold(1, a, h)
                => [](CreatedSharedRecipe(2, a, x)
                        => [](JoinedHousehold(3, b, h)
                                => ReadsButCannotEdit(x, b))))

\* C13 amended: user a creates recipe x with shared_with_household = true,
\* then creates household h, then user b joins h: after the join b can
\* access x and cannot edit it.
C13_JoinerReadsEarlierSharedRecipe ==
    \A a \in Users : \A b \in Users \ {a} :
        \A h \in 1..MaxHouseholds : \A x \in 1..MaxRecipes :
            [](CreatedSharedRecipe(1, a, x)
                => [](CreatedHousehold(2, a, h)
                        => [](JoinedHousehold(3, b, h)
                                => ReadsButCannotEdit(x, b))))

\* The three calls have returned: the joiner reads the creator's recipe
\* through the household and cannot edit it.
C13_Witness ==
    /\ calls = 3 /\ AllReturned
    /\ \E h \in households, m \in household_memberships, x \in recipes :
           /\ x.user_id = h.created_by /\ x.shared_with_household
           /\ m.household_id = h.id /\ m.role = "member"
           /\ m.user_id # x.user_id
           /\ ReadsButCannotEdit(x.id, m.user_id)

\* C14: a step that creates a recipe or updates its shared_with_household
\* flag writes no access row: a new recipe is accessible to its owner only,
\* and the access of every user to the existing recipes is unchanged.
C14_SharingAfterJoinGrantsNothing ==
    [][recipes' # recipes
          => /\ recipe_household_access' = recipe_household_access
             /\ \A x \in recipes' : \A u \in Users \ {x.user_id} :
                    can_user_access_recipe(x.id, u)' =
                        (/\ x.id \in {y.id : y \in recipes}
                         /\ can_user_access_recipe(x.id, u))]_vars

\* After three calls a household has two members, one of them owns a recipe
\* flagged shared_with_household, and the other one cannot access it.
C14_Witness ==
    /\ calls = 3
    /\ \E x \in recipes, m1, m2 \in household_memberships :
           /\ x.shared_with_household
           /\ m1.user_id = x.user_id
           /\ m2.user_id # x.user_id
           /\ m1.household_id = m2.household_id
           /\ ~can_user_access_recipe(x.id, m2.user_id)

\* C15: leave_household returns False and changes nothing when its SELECT
\* finds no membership of the user; otherwise it goes on to its commit, which
\* returns True and deletes the selected membership, and, when that
\* membership was still the user's, leaves the user without a membership
\* (the test of a later join_household passes) and with current_household_id
\* cleared.
C15_LeaveHousehold ==
    [][\A p \in Sessions :
          LET r == session[p]
              n == session'[p]
              mine == {m \in household_memberships : m.user_id = r.user_id}
          IN  /\ (r.pc = "lv_select" /\ n # r /\ mine = {})
                     => (n.pc = "done" /\ n.outcome = "False" /\ db' = db)
              /\ (r.pc = "lv_select" /\ n # r /\ mine # {})
                     => (n.pc = "lv_get_user" /\ db' = db)
              /\ (r.pc = "lv_commit" /\ n # r)
                     => /\ n.pc = "done" /\ n.outcome = "True"
                        /\ \A m \in household_memberships' :
                               ~(m.user_id = r.user_id /\ m.id = r.membership)
                        /\ (\E m \in mine : m.id = r.membership)
                               => /\ existing_membership(household_memberships',
                                                         r.user_id) = None
                                  /\ current_household_id'[r.user_id] = None
                        /\ UNCHANGED <<households, recipes>>]_vars

\* After three calls (create, leave and join of one user) the creator of the
\* household is in it again with the role of a member: the leave returned
\* True and the join that followed it was accepted.
C15_Witness ==
    /\ calls = 3
    /\ \E p, q \in Sessions :
           /\ session[p].op = "leave_household" /\ session[p].outcome = "True"
           /\ session[q].op = "join_household"
           /\ session[q].outcome = "HouseholdMembership"
    /\ \E h \in households, m \in household_memberships :
           m.household_id = h.id /\ m.user_id = h.created_by
               /\ m.role = "member"

MemberRemovals == {"leave_household", "remove_member"}

\* C16: no step of leave_household or remove_member changes the access rows,
\* and every user other than the one leaving keeps the access they had to
\* every recipe.
C16_LeaveKeepsGrants ==
    [][\A p \in Sessions :
          (session[p].op \in MemberRemovals /\ session'[p] # session[p]
              /\ session[p].pc # "done")
          => /\ recipe_household_access' = recipe_household_access
             /\ \A x \in recipes : \A v \in Users \ {session[p].user_id} :
                    can_user_access_recipe(x.id, v)' =
                        can_user_access_recipe(x.id, v)]_vars

\* After four calls (a shared recipe, its owner's household, another user's
\* join, the owner's leave or removal) the owner is in no household and the
\* member who stayed still accesses the recipe.
C16_Witness ==
    /\ calls = 4
    /\ \E p \in Sessions :
           session[p].op \in MemberRemovals /\ session[p].outcome = "True"
    /\ \E x \in recipes, v \in Users :
           /\ v # x.user_id
           /\ \A m \in household_memberships : m.user_id # x.user_id
           /\ can_user_access_recipe(x.id, v)

C17_State ==
    \A g1, g2 \in recipe_household_access :
        (g1.recipe_id = g2.recipe_id /\ g1.household_id = g2.household_id)
            => g1 = g2

C17_Step ==
    \A p \in Sessions :
        LET r == session[p]
            n == session'[p]
            Held(x) == \E g \in recipe_household_access :
                           g.recipe_id = x /\ g.household_id = r.household
        IN  (r.pc = "grant_check" /\ n # r)
            => /\ db' = db
               /\ n.pc = "grant_commit" => ~Held(n.recipe_id)
               /\ (r.op = "grant_household_access"
                       /\ \A x \in r.todo : Held(x))
                      => (n.pc = "done" /\ n.outcome = "None")

\* C17: grant_household_access called for a (recipe, household) pair that has
\* an access row returns None, raises nothing and changes no table (it goes
\* on to its INSERT only for a pair without a row), and in every state there
\* is at most one access row per pair.
C17_GrantIdempotent == []C17_State /\ [][C17_Step]_vars

\* A grant call has returned None for a pair that has its access row, after
\* another grant call inserted it.
C17_Witness ==
    \E p, q \in Sessions :
        /\ session[p].op = "grant_household_access"
        /\ session[p].outcome = "None"
        /\ session[q].op = "grant_household_access"
        /\ session[q].outcome = "RecipeHouseholdAccess"
        /\ Cardinality(recipe_household_access) = 1

\* Before call number k + 1 the household h holds an access row for x or
\* not (held), and user u can access recipe x or not (v).
BeforeGrant(k, x, h, u, held, v) ==
    /\ calls = k /\ AllReturned
    /\ can_user_access_recipe(x, u) = v
    /\ held = (\E g \in recipe_household_access :
                   g.recipe_id = x /\ g.household_id = h)

\* Call number k is grant_household_access(x, h).
GrantCalled(k, x, h) ==
    /\ calls = k
    /\ \E p \in Sessions :
           /\ session[p].op = "grant_household_access"
           /\ session[p].pc = "grant_check"
           /\ session[p].todo = {x} /\ session[p].household = h

\* Call number k is revoke_household_access(x, h).
RevokeCalled(k, x, h) ==
    /\ calls = k
    /\ \E p \in Sessions :
           /\ session[p].pc = "rv_select"
           /\ session[p].recipe_id = x /\ session[p].household = h

\* grant(x, h) followed by revoke(x, h), from a state in which `held` says
\* whether h holds an access row for x, gives user u the access to x that u
\* had before.
GrantRevokeRoundTrip(held) ==
    \A k \in 0..(MaxRoundTripCalls - 2) : \A x \in 1..MaxRecipes :
        \A h \in 1..MaxHouseholds : \A u \in Users : \A v \in BOOLEAN :
            [](BeforeGrant(k, x, h, u, held, v)
                => [](GrantCalled(k + 1, x, h)
                        => [](RevokeCalled(k + 2, x, h)
                                => []((calls = k + 2 /\ AllReturned)
                                        => can_user_access_recipe(x, u) = v))))

\* C18 as stated: from every starting state, grant(x, h) followed by
\* revoke(x, h) leaves can_user_access_recipe(x, u) of every user u as it
\* was before the grant.
C18_GrantRevokeRestoresAccess ==
    \A held \in BOOLEAN : GrantRevokeRoundTrip(held)

\* C18 amended: from every starting state in which h holds no access row
\* for x, grant(x, h) followed by revoke(x, h) leaves
\* can_user_access_recipe(x, u) of every user u as it was before the grant.
C18_GrantRevokeRestoresAccessIfNew == GrantRevokeRoundTrip(FALSE)

\* A grant has inserted its row, the revoke that followed has deleted it,
\* and a member of the household who does not own the recipe is back
\* without access to it.
C18_Witness ==
    /\ calls = 2 /\ AllReturned
    /\ \E p, q \in Sessions :
           /\ session[p].op = "grant_household_access"
           /\ session[p].outcome = "RecipeHouseholdAccess"
           /\ session[q].op = "revoke_household_access"
           /\ session[q].outcome = "True"
    /\ recipe_household_access = {}
    /\ \E x \in recipes, m \in household_memberships :
           m.user_id # x.user_id /\ ~can_user_access_recipe(x.id, m.user_id)

\* The calls of find_or_create_ingredient that have returned for a name that
\* is not empty.
Resolved ==
    {p \in Sessions : ingredient_call[p].returned
                          /\ ingredient_call[p].ingredient_name # <<>>}

\* C19: of two find_or_create_ingredient calls for one new name (the only
\* two calls so far, run one after the other or racing), the one whose INSERT
\* hits the unique constraint answers by a lookup: both return the same
\* Ingredient, neither returns None, and exactly one row has that name.
C19_RaceLoserReturnsIngredient ==
    \A p \in Resolved : \A q \in Resolved \ {p} :
        (calls = 2 /\ ingredient_call[p].name = ingredient_call[q].name)
        => /\ ingredient_call[p].result # None
           /\ ingredient_call[p].result = ingredient_call[q].result
           /\ Cardinality({i \in ingredients :
                              i.name = ingredient_call[p].name}) = 1

\* `name` is `raw` without its leading and trailing whitespace and in lower
\* case.
TrimmedLowerCase(raw, name) ==
    /\ \A k \in 1..Len(name) : name[k] # "A"
    /\ name # <<>> => (name[1] # " " /\ name[Len(name)] # " ")
    /\ \E i \in 1..(Len(raw) + 1) :
           /\ Len(name) = Len(raw) + 1 - i
                  - Cardinality({k \in i..Len(raw) :
                        \A l \in k..Len(raw) : raw[l] = " "})
           /\ \A k \in 1..(i - 1) : raw[k] = " "
           /\ \A k \in 1..Len(name) :
                  name[k] = (IF raw[i + k - 1] = "A" THEN "a"
                             ELSE raw[i + k - 1])

C20_State ==
    /\ \A p \in Sessions :
           ingredient_call[p].ingredient_name # <<>>
               => TrimmedLowerCase(ingredient_call[p].ingredient_name,
                                   ingredient_call[p].name)
    /\ \A i1, i2 \in ingredients : i1.name = i2.name => i1 = i2
    /\ \A p \in Resolved :
           ingredient_call[p].result # None
               => \E i \in ingredients :
                      /\ i.id = ingredient_call[p].result
                      /\ i.name = ingredient_call[p].name
    /\ \A p, q \in Resolved :
           (/\ ingredient_call[p].name = ingredient_call[q].name
            /\ ingredient_call[p].result # None
            /\ ingredient_call[q].result # None)
               => ingredient_call[p].result = ingredient_call[q].result

C20_Step ==
    \A p \in Sessions :
        LET r == ingredient_call[p]
            n == ingredient_call'[p]
            held == {i \in ingredients : i.name = r.name}
        IN  /\ (r.pc = "select" /\ n # r)
                   => /\ ingredients' = ingredients
                      /\ IF held # {}
                         THEN n.returned /\ n.result \in {i.id : i \in held}
                         ELSE n.pc = "insert"
            /\ (r.pc = "insert" /\ n # r)
                   => /\ n.returned
                      /\ ingredients \subseteq ingredients'
                      /\ held = {} =>
                             /\ n.result # None
                             /\ ingredients' \ ingredients =
                                    {[id |-> n.result, name |-> r.name,
                                      category |-> None]}
                      /\ held # {} => ingredients' = ingredients

\* C20: find_or_create_ingredient looks its argument up by the trimmed,
\* lower-cased name; a row found is returned and no row is added; when none
\* exists the call creates exactly one row, with that name and category
\* None, and returns it; no two rows share a name, and two calls whose
\* arguments normalize to one name and that return an Ingredient return the
\* same one.
C20_FindOrCreateByNormalizedName == []C20_State /\ [][C20_Step]_vars

\* Two calls given different spellings of one name have returned the same
\* Ingredient, the only row of that name.
C20_Witness ==
    \E p, q \in Resolved :
        /\ ingredient_call[p].ingredient_name
               # ingredient_call[q].ingredient_name
        /\ ingredient_call[p].name = ingredient_call[q].name
        /\ ingredient_call[p].result # None
        /\ ingredient_call[p].result = ingredient_call[q].result
        /\ Cardinality({i \in ingredients :
                           i.name = ingredient_call[p].name}) = 1

\* C21: in every state of the catalog, whichever operation added the
\* entries, every entry's name is in lower case and no two entries have the
\* same name.
C21_CatalogCanonicalUnique ==
    /\ \A i \in ingredients : i.name = lower(i.name)
    /\ \A i \in ingredients : \A j \in ingredients :
           i.name = j.name => i = j

\* The ingredient lines of recipe x that are visible.
VisibleLines(x) == {l \in recipe_ingredients : l.recipe_id = x}

PlanLines(meals) ==
    {<<m, l>> : m \in meals,
                l \in {x \in recipe_ingredients :
                          \E n \in meals : n.recipe_id = x.recipe_id}}

PlannedLines(meals) ==
    {e \in PlanLines(meals) : e[2].recipe_id = e[1].recipe_id}

\* The numeric sum of the quantities of a set of planned lines, a missing
\* quantity counting as zero.
RECURSIVE TotalQuantity(_)
TotalQuantity(S) ==
    IF S = {} THEN 0
    ELSE LET e == CHOOSE x \in S : TRUE
         IN  (IF e[2].quantity = None THEN 0 ELSE e[2].quantity)
                 + TotalQuantity(S \ {e})

\* The planned lines of ingredient g.
LinesOf(S, g) == {e \in S : e[2].ingredient_id = g}

\* The items of shopping list l.
ItemsOf(l) == {i \in shopping_list_items : i.shopping_list_id = l}

\* The generation of session p returned a list with exactly one item per
\* ingredient of the plan it read, each with the summed quantity and the
\* ingredient's catalog category.
EmitsOneItemPerIngredient(p) ==
    LET call == shopping_call[p]
        S == PlannedLines(call.planned_meals)
    IN  /\ call.outcome = "returned"
        /\ call.result \in {l.id : l \in shopping_lists}
        /\ \A e \in S :
               Cardinality({i \in ItemsOf(call.result) :
                               i.ingredient_id = e[2].ingredient_id}) = 1
        /\ \A i \in ItemsOf(call.result) :
               /\ LinesOf(S, i.ingredient_id) # {}
               /\ i.quantity = TotalQuantity(LinesOf(S, i.ingredient_id))
               /\ \E g \in ingredients :
                      g.id = i.ingredient_id /\ g.category = i.category

\* The step in which the generation of session p, having found its meal
\* plan, ends.
GenerationEnds(p) ==
    shopping_call[p].pc # "done" /\ shopping_call'[p].pc = "done"

C23_Step ==
    \A p \in Sessions : GenerationEnds(p) => EmitsOneItemPerIngredient(p)'

\* C23: generate_shopping_list_from_meal_plan, for a meal plan that exists,
\* emits exactly one ShoppingListItem per distinct ingredient of the plan's
\* planned meals (completed or not, a recipe planned twice counting twice),
\* with the numeric sum of the lines' quantities (missing counted as zero)
\* and the ingredient's catalog category.
C23_OneItemPerIngredientWithSum == [][C23_Step]_vars

\* The planned line met first: planned meals in the order they were added,
\* the lines of a recipe in line order.
FirstLine(S) ==
    CHOOSE e \in S :
        \A f \in S :
            \/ e[1].id < f[1].id
            \/ e[1].id = f[1].id /\ e[2].id[2] <= f[2].id[2]

\* The generation of session p returned a list in which every ingredient of
\* the plan has an item with the unit of its first line and the total of
\* all its lines' numbers.
KeepsFirstUnit(p) ==
    LET call == shopping_call[p]
        S == PlannedLines(call.planned_meals)
    IN  \A e \in S :
            \E i \in ItemsOf(call.result) :
                /\ i.ingredient_id = e[2].ingredient_id
                /\ i.unit = FirstLine(LinesOf(S, i.ingredient_id))[2].unit
                /\ i.quantity = TotalQuantity(LinesOf(S, i.ingredient_id))

C24_Step ==
    \A p \in Sessions : GenerationEnds(p) => KeepsFirstUnit(p)'

\* C24: the unit of a merged ShoppingListItem is the unit of the first line
\* met for its ingredient, a null unit included; later lines with another
\* unit add their number to the total and leave the unit as it is.
C24_MergedItemKeepsFirstUnit == [][C24_Step]_vars

\* The tables of the store.
Store ==
    <<households, household_memberships, current_household_id, recipes,
      recipe_household_access, ingredients, recipe_ingredients, meal_plans,
      planned_meals, shopping_lists, shopping_list_items>>

C25_Step ==
    \A p \in Sessions :
        (/\ shopping_call'[p] # shopping_call[p]
         /\ shopping_call'[p].meal_plan_id \notin {m.id : m \in meal_plans})
        => /\ shopping_call'[p].pc = "done"
           /\ shopping_call'[p].outcome = "NotFound"
           /\ shopping_call'[p].result = None
           /\ UNCHANGED Store

\* C25: generate_shopping_list_from_meal_plan for a meal plan id that does
\* not exist fails with NotFound in the step that looks the plan up, and
\* that step changes no table: no ShoppingList, no ShoppingListItem.
C25_UnknownMealPlanNotFound == [][C25_Step]_vars

C25_Witness ==
    \E p \in Sessions :
        /\ shopping_call[p].outcome = "NotFound"
        /\ shopping_call[p].meal_plan_id \notin {m.id : m \in meal_plans}
        /\ shopping_lists = {}

\* C26: every ShoppingList returned by generate_shopping_list_from_meal_plan
\* (user, meal plan) has the meal plan's household, the requesting user and
\* the meal plan as its reference.
C26_GeneratedListScopedToPlan ==
    \A p \in Sessions :
        shopping_call[p].outcome = "returned"
        => \E l \in shopping_lists : \E m \in meal_plans :
               /\ l.id = shopping_call[p].result
               /\ m.id = shopping_call[p].meal_plan_id
               /\ l.household_id = m.household_id
               /\ l.user_id = shopping_call[p].user_id
               /\ l.meal_plan_id = m.id

C26_Witness ==
    \E p \in Sessions :
        /\ shopping_call[p].outcome = "returned"
        /\ shopping_call[p].result \in {l.id : l \in shopping_lists}
        /\ \E m \in meal_plans :
               /\ m.id = shopping_call[p].meal_plan_id
               /\ m.household_id # None
               /\ m.user_id # shopping_call[p].user_id

C27_Step ==
    \A l \in shopping_lists' \ shopping_lists :
        get_user_household(l.user_id) = l.household_id

\* C27: every ShoppingList created, by create_shopping_list or by
\* generate_shopping_list_from_meal_plan, has the household its creating
\* user is a member of when the row is created.
C27_ListScopedToCallersHousehold == [][C27_Step]_vars

\* The shopping lists returned by a generation.
GeneratedLists ==
    {shopping_call[p].result : p \in {q \in Sessions :
                                   shopping_call[q].outcome = "returned"}}

\* A step on the source data of a list: planned meals added or updated,
\* recipes updated or deleted, another list generated.
SourceDataStep ==
    \/ planned_meals' # planned_meals
    \/ recipes' # recipes
    \/ recipe_ingredients' # recipe_ingredients
    \/ shopping_lists' # shopping_lists

C28_Step ==
    SourceDataStep => \A l \in GeneratedLists : ItemsOf(l)' = ItemsOf(l)

\* C28: once generate_shopping_list_from_meal_plan has produced a list,
\* later operations on the source data (planned meals added or updated,
\* recipes updated or deleted, another list generated from the plan) leave
\* the items of that list, with their quantities and units, unchanged.
C28_GeneratedListIsSnapshot == [][C28_Step]_vars

C28_Witness ==
    \E p \in Sessions :
        /\ shopping_call[p].outcome = "returned"
        /\ ItemsOf(shopping_call[p].result) # {}
        /\ \E m \in planned_meals :
               m.meal_plan_id = shopping_call[p].meal_plan_id

\* The fallback record of the claim for a raw text.
IsFallbackRecord(raw, record) ==
    /\ TrimmedLowerCase(raw, record.ingredient_name)
    /\ record.quantity = None
    /\ record.unit = NoUnit
    /\ record.notes = NoNotes
    /\ record.parsing_confidence = 10
    /\ ~record.parsed_successfully

\* C29: parse_ingredient_string never raises: for every text and every
\* answer of the parser it returns a record, and when the parser raises or
\* reports no ingredient-name token the record is the fallback one (the
\* trimmed, lower-cased raw text as name, no quantity, unit or notes,
\* confidence 0.1, not parsed successfully).
C29_ParseNeverRaisesAndFallsBack ==
    parse_call.returned
    => /\ ~parse_call.result.raised
       /\ (parse_call.parsed.raises \/ parse_call.parsed.name = <<>>)
          => IsFallbackRecord(parse_call.ingredient_text, parse_call.result)

\* The number of records of a batch flagged successful.
Successful(batch) ==
    Cardinality({k \in 1..Len(batch) : batch[k].parsed_successfully})

\* The sum of the confidences of the records of a batch.
RECURSIVE Confidences(_, _)
Confidences(batch, k) ==
    IF k = 0 THEN 0
    ELSE batch[k].parsing_confidence + Confidences(batch, k - 1)

\* C30: for every batch, the empty one included, the summary of
\* get_parsing_stats has the four fields total, parsed_successfully,
\* success_rate and average_confidence, with total the number of records,
\* parsed_successfully the number flagged successful (between 0 and total),
\* success_rate their quotient (0 for the empty batch) and
\* average_confidence the mean of the confidences.
C30_StatsHaveFourFields ==
    stats_call.returned
    => LET batch == stats_call.parsed_ingredients
           stats == stats_call.result
       IN  /\ DOMAIN stats = {"total", "parsed_successfully", "success_rate",
                              "average_confidence"}
           /\ stats.total = Len(batch)
           /\ stats.parsed_successfully = Successful(batch)
           /\ 0 <= stats.parsed_successfully
           /\ stats.parsed_successfully <= stats.total
           /\ IF batch = <<>> THEN stats.success_rate.num = 0
              ELSE /\ stats.success_rate.num * Len(batch)
                          = Successful(batch) * stats.success_rate.den
                   /\ stats.average_confidence.num * Len(batch)
                          = Confidences(batch, Len(batch))
                                * stats.average_confidence.den

RouterOps == {"update_member_role", "remove_member"}

HoldsAdminMembership(current_user, household_id) ==
    \E m \in household_memberships :
        /\ m.household_id = household_id
        /\ m.user_id = current_user
        /\ m.role = "admin"

\* The endpoint passes the request of session p on to the service.
Admitted(p) == session'[p].pc # "done"

C31_Step ==
    \A p \in Sessions :
        /\ (Ready(p) /\ session'[p] # session[p]
                /\ session'[p].op \in RouterOps)
           => /\ UNCHANGED db
              /\ Admitted(p) =>
                     /\ HoldsAdminMembership(session'[p].current_user,
                                             session'[p].household)
                     /\ session'[p].op = "remove_member"
                            => session'[p].user_id # session'[p].current_user
              /\ ~HoldsAdminMembership(session'[p].current_user,
                                       session'[p].household)
                     => session'[p].outcome \in {"422", "404", "403"}
              /\ (/\ session'[p].op = "remove_member"
                  /\ session'[p].user_id = session'[p].current_user)
                     => session'[p].outcome \in {"404", "403", "400"}
        /\ (session[p].op \in RouterOps /\ session'[p] # session[p]
                /\ <<household_memberships, current_household_id>>' #
                       <<household_memberships, current_household_id>>)
           => session[p].pc \in {"ur_commit", "rm_commit"}

\* C31: the update-role and remove-member endpoints pass a request on to the
\* service only when the caller holds an admin membership of the target
\* household at the endpoint's membership lookup, and never a removal of the
\* caller; every other request is refused (422, 404, 403, 400) with the
\* tables unchanged, and memberships change only in the service's commit of
\* a request that was passed on.
C31_AdminOnlyAtCallerLayer == [][C31_Step]_vars

C31_Witness ==
    \E p, q \in Sessions :
        /\ session[p].op = "remove_member" /\ session[p].outcome = "True"
        /\ session[q].op = "remove_member" /\ session[q].outcome = "400"
        /\ session[q].user_id = session[q].current_user

\* C32: in every committed state every membership's role is admin or member
\* (the caller layer accepts update-role requests, among them requests
\* without a role).
C32_RolesAreAdminOrMember ==
    \A m \in household_memberships : m.role \in {"admin", "member"}

\* C34: in every committed state reached through create, join, leave,
\* update-role and remove-member requests, every household has at least one
\* membership with role admin.
C34_EveryHouseholdHasAdmin ==
    \A h \in households :
        \E m \in household_memberships :
            m.household_id = h.id /\ m.role = "admin"

MembershipsOf(u) == {m \in household_memberships : m.user_id = u}

\* C35: in every committed state current_household_id of a user is null
\* exactly when the user has no membership, and otherwise is the household
\* of the user's membership.
C35_CurrentHouseholdMatchesMembership ==
    \A u \in Users :
        /\ current_household_id[u] = None <=> MembershipsOf(u) = {}
        /\ \A m \in MembershipsOf(u) : current_household_id[u] = m.household_id

\* The step publishes the copy made in session p.
CopyCommits(p) ==
    /\ recipe_call[p].op = "copy_recipe"
    /\ recipe_call[p].pc = "rc_commit"
    /\ recipe_call'[p].outcome = "returned"

C33_Step ==
    /\ \A x \in recipes :
           \E y \in recipes' : y.id = x.id /\ y.user_id = x.user_id
    /\ \A x \in recipes, y \in recipes' : y.id = x.id => y.user_id = x.user_id
    /\ \A p \in Sessions :
           CopyCommits(p) =>
               /\ recipes \subseteq recipes'
               /\ \E y \in recipes' \ recipes :
                      /\ recipes' = recipes \cup {y}
                      /\ y.user_id = recipe_call[p].user_id
                      /\ \A l \in recipe_ingredients' \ recipe_ingredients :
                             l.recipe_id = y.id
               /\ recipe_ingredients \subseteq recipe_ingredients'
               /\ UNCHANGED recipe_household_access

ListingReturns(p) ==
    /\ session[p].op = "get_accessible_recipes"
    /\ session[p].pc # "done"
    /\ session'[p].outcome = "list"

ListedOnce(p) == \A e \in session'[p].result : e.n = 1

ListedAreAccessible(p) ==
    {e.recipe : e \in session'[p].result}
        \subseteq {x.id : x \in {y \in recipes :
                       can_user_access_recipe(y.id, session[p].user_id)}}

AccessibleAreListed(p) ==
    {x.id : x \in {y \in recipes :
         can_user_access_recipe(y.id, session[p].user_id)}}
        \subseteq {e.recipe : e \in session'[p].result}

CanEditFlags(p) ==
    \A e \in session'[p].result :
        e.can_edit = can_user_edit_recipe(e.recipe, session[p].user_id)

C36_Step ==
    \A p \in Sessions :
        ListingReturns(p) =>
            /\ ListedOnce(p)
            /\ ListedAreAccessible(p)
            /\ AccessibleAreListed(p)
            /\ CanEditFlags(p)

\* C36: the list get_accessible_recipes returns for a user holds each recipe
\* the user can access (can_user_access_recipe) exactly once, the user's own
\* recipes without any access row included, and no other recipe, and each
\* entry's can_edit equals can_user_edit_recipe.
C36_ListingAgreesWithPredicates == [][C36_Step]_vars

\* create_household is running in session p, up to the INSERT of the
\* creator's membership, for a user who holds a membership.
CreatingAsMember(p) ==
    /\ session[p].op = "create_household"
    /\ session[p].pc \in {"cr_generate", "cr_flush", "cr_get_user"}
    /\ MembershipsOf(session[p].user_id) # {}
    /\ session'[p] # session[p]

C37_Step ==
    \A p \in Sessions :
        CreatingAsMember(p) =>
            /\ UNCHANGED db
            /\ session[p].ncommit = 0
            /\ session[p].pc = "cr_get_user" =>
                   /\ session'[p].pc = "done"
                   /\ session'[p].outcome =
                          "IntegrityError:unique_user_household"
                   /\ session'[p].new_households = {}
                   /\ session'[p].new_memberships = {}

\* C37: a create_household call of a user who holds a membership ends when
\* it inserts the creator's membership, with IntegrityError on
\* unique_user_household; the call has committed nothing and its flushed
\* household row is rolled back, so households, memberships,
\* current_household_id and access rows are as before the call.
C37_CreateByMemberFails == [][C37_Step]_vars

C37_Witness ==
    \E p \in Sessions :
        /\ session[p].op = "create_household"
        /\ session[p].outcome = "IntegrityError:unique_user_household"
        /\ households = {[id |-> 1, invite_code |-> 1, created_by |-> 1]}
        /\ household_memberships = {creator_membership(1, 1, 1)}
        /\ current_household_id[1] = 1
        /\ recipe_household_access =
               {[id |-> 1, recipe_id |-> 1, household_id |-> 1]}

\* Some code of the code space is held by no household.
SomeCodeFree ==
    \E c \in Codes : \A h \in households : h.invite_code # c

\* C38: a create_household call that is in its invite-code loop while some
\* code is held by no household leaves the loop and ends (returns or
\* raises), given that the call keeps running and that the pick of an unused
\* code, possible at every pass, is eventually made.
C38_InviteCodeLoopTerminates ==
    \A p \in Sessions :
        (session[p].pc = "cr_generate" /\ SomeCodeFree)
            ~> (Ready(p) \/ ~SomeCodeFree)

C38_Witness ==
    \E p \in Sessions :
        /\ session[p].op = "create_household"
        /\ session[p].pc = "cr_generate"
        /\ households # {}
        /\ SomeCodeFree

====
